---- MODULE Spec2Model ----
(***************************************************************************)
(* Model of the GESA archiver core: the Huffman and LZW codecs, their      *)
(* single-file and archive containers, the ThreadPool, and the parallel    *)
(* directory pipeline (compressDirectory / decompressDirectory).           *)
(***************************************************************************)
EXTENDS Integers, Sequences, FiniteSets, TLC

(***************************************************************************)
(* Bounds of the model.                                                    *)
(***************************************************************************)
\* longest input buffer handed to a codec in the codec specifications
MaxLen == 5
\* kMaxDictionarySize is 4096 in the source; the model lets the LZW
\* dictionary grow by this many entries past the 256 initial ones, so that
\* short inputs reach the cap and are coded with the frozen dictionary
DictGrowth == 2
\* most worker threads of a pool
MaxThreads == 2
\* most tasks submitted to the pool in the pool specification
MaxTasks == 3
\* most regular files in a source tree of the directory specification
MaxFiles == 2
\* the codecs alone: longest run of one byte, longest mixed buffer, longest
\* byte payload of a stream that no encoder produced
MaxRun == 17
MaxShort == 4
MaxStream == 2
\* the frequency counters of the Huffman metadata are std::uint32_t and wrap
\* at 2^32 occurrences of a byte; the counters of the model wrap at this
\* many occurrences, so that its short buffers reach the wrap
FrequencyWrap == 5
\* longest bit sequence handed to a BitWriter in the bit stream specification
MaxBits == 9
\* most submissions to a pool in the specification with scheduling
MaxFairTasks == 2

\* byte values the input buffers are drawn from (four distinct values, so
\* that Huffman trees with two internal nodes of equal weight occur)
InputBytes == {0, 1, 65, 255}

U8  == 256
U16 == 65536

Min(S) == CHOOSE x \in S : \A y \in S : x <= y
Max(S) == CHOOSE x \in S : \A y \in S : x >= y

RECURSIVE Pow2(_)
Pow2(n) == IF n = 0 THEN 1 ELSE 2 * Pow2(n - 1)

\* all sequences over S of length at most n
SeqsUpTo(S, n) == UNION {[1..k -> S] : k \in 0..n}

B2N(bit) == IF bit THEN 1 ELSE 0

\* Body applied to value: names an intermediate result of the code once
With(value, Body(_)) == Body(value)

(***************************************************************************)
(* Huffman bit I/O  (src/src/compression/huffman/bit_stream.cpp)           *)
(***************************************************************************)
NewBitWriter == [buffer |-> <<>>, current |-> 0, bitCount |-> 0]

writeBit(w, bit) ==
    LET cur == ((w.current * 2) % U8) + B2N(bit)
        cnt == w.bitCount + 1
    IN  IF cnt = 8
        THEN [buffer |-> Append(w.buffer, cur), current |-> 0, bitCount |-> 0]
        ELSE [buffer |-> w.buffer, current |-> cur, bitCount |-> cnt]

RECURSIVE writeCode(_, _)
writeCode(w, bits) ==
    IF bits = <<>> THEN w ELSE writeCode(writeBit(w, Head(bits)), Tail(bits))

\* a writer that forgets the bits of the last, partial byte
finishWithoutFlush(w) == w.buffer

\* finish(): the last byte is padded with zero bits on the right
finish(w) ==
    IF w.bitCount > 0
    THEN Append(w.buffer, (w.current * Pow2(8 - w.bitCount)) % U8)
    ELSE w.buffer

NewBitReader == [byteIndex |-> 0, bitIndex |-> 0]

\* a reader that makes up zero bits past the end of the stream
readBitPastEnd(r, data) ==
    LET current == IF r.byteIndex >= Len(data) THEN 0 ELSE data[r.byteIndex + 1]
        bit     == ((current \div Pow2(7 - r.bitIndex)) % 2) = 1
    IN  [ok |-> TRUE, bit |-> bit,
         reader |-> IF r.bitIndex + 1 = 8
                    THEN [byteIndex |-> r.byteIndex + 1, bitIndex |-> 0]
                    ELSE [byteIndex |-> r.byteIndex, bitIndex |-> r.bitIndex + 1]]

\* readBit on the buffer data: ok = FALSE at the end of the stream
readBit(r, data) ==
    IF r.byteIndex >= Len(data)
    THEN [ok |-> FALSE, bit |-> FALSE, reader |-> r]
    ELSE LET current == data[r.byteIndex + 1]
             bit     == ((current \div Pow2(7 - r.bitIndex)) % 2) = 1
         IN  [ok |-> TRUE, bit |-> bit,
              reader |-> IF r.bitIndex + 1 = 8
                         THEN [byteIndex |-> r.byteIndex + 1, bitIndex |-> 0]
                         ELSE [byteIndex |-> r.byteIndex, bitIndex |-> r.bitIndex + 1]]

(***************************************************************************)
(* Huffman codec  (src/src/compression/huffman/codec.cpp)                  *)
(* NodeStorage is a sequence of nodes; a Node* is an index into it and     *)
(* nullptr is 0.                                                           *)
(***************************************************************************)
nullptr == 0

Node(frequency, symbol, left, right) ==
    [frequency |-> frequency, symbol |-> symbol, left |-> left, right |-> right]

createLeaf(storage, frequency, symbol) ==
    Append(storage, Node(frequency, symbol, nullptr, nullptr))

createInternal(storage, left, right) ==
    Append(storage,
           Node(storage[left].frequency + storage[right].frequency, -1, left, right))

\* TRUE when lhs is ordered after rhs (std::priority_queue pops the node
\* that no other node is ordered before)
NodePtrComparator(storage, lhs, rhs) ==
    IF storage[lhs].frequency = storage[rhs].frequency
    THEN storage[lhs].symbol > storage[rhs].symbol
    ELSE storage[lhs].frequency > storage[rhs].frequency

\* queue.top(): a node no other queued node precedes. Among nodes the
\* comparator does not separate the heap's choice is fixed by the library;
\* tie names that choice ("oldest" or "newest" node of the storage).
QueueTop(storage, queue, tie) ==
    LET cands == {t \in queue : \A x \in queue : ~NodePtrComparator(storage, t, x)}
    IN  IF tie = "oldest" THEN Min(cands) ELSE Max(cands)

ZeroTable == [s \in 0..255 |-> 0]

\* the leaf loop of buildTree: one leaf per symbol of non-zero frequency,
\* created in ascending symbol order
PushLeaves(frequencies) ==
    LET present == {s \in DOMAIN frequencies : frequencies[s] # 0}
        nth(i)  == CHOOSE s \in present :
                       Cardinality({t \in present : t < s}) = i - 1
    IN  [i \in 1..Cardinality(present) |->
            Node(frequencies[nth(i)], nth(i), nullptr, nullptr)]

\* one round of the merge loop: right is popped after left
MergeStep(storage, queue, tie, left) ==
    With(QueueTop(storage, queue \ {left}, tie), LAMBDA right :
        [storage |-> createInternal(storage, left, right),
         queue   |-> (queue \ {left, right}) \cup {Len(storage) + 1}])

\* the merge loop of buildTree; the queue holds node indices
RECURSIVE MergeNodes(_, _, _)
MergeNodes(storage, queue, tie) ==
    IF Cardinality(queue) <= 1 THEN storage
    ELSE With(MergeStep(storage, queue, tie, QueueTop(storage, queue, tie)),
              LAMBDA m : MergeNodes(m.storage, m.queue, tie))

\* buildTree: the storage and the root (nullptr for an all-zero table); the
\* root is the node created last
buildTree(frequencies, tie) ==
    With(PushLeaves(frequencies), LAMBDA leaves :
        With(MergeNodes(leaves, 1..Len(leaves), tie), LAMBDA storage :
            [storage |-> storage,
             root |-> IF Len(leaves) = 0 THEN nullptr ELSE Len(storage)]))

EmptyCodeTable == [s \in 0..255 |-> <<>>]

RECURSIVE buildCodeTable(_, _, _, _)
buildCodeTable(storage, node, prefix, table) ==
    IF node = nullptr THEN table
    ELSE IF storage[node].left = nullptr /\ storage[node].right = nullptr
         THEN [table EXCEPT ![storage[node].symbol] =
                   IF prefix = <<>> THEN <<FALSE>> ELSE prefix]
         ELSE LET t1 == buildCodeTable(storage, storage[node].left,
                                       Append(prefix, FALSE), table)
              IN  buildCodeTable(storage, storage[node].right,
                                 Append(prefix, TRUE), t1)

\* the counting loop of encodeBuffer: ++frequencies[value] on a
\* std::uint32_t counter, which wraps to 0 without a fault
RECURSIVE CountFrequencies(_, _)
CountFrequencies(input, frequencies) ==
    IF input = <<>> THEN frequencies
    ELSE CountFrequencies(Tail(input),
             [frequencies EXCEPT ![Head(input)] = (@ + 1) % FrequencyWrap])

\* the write loop of encodeBuffer: the writer, or "fault" on an empty entry
RECURSIVE WriteCodes(_, _, _)
WriteCodes(input, table, writer) ==
    IF input = <<>> THEN [fault |-> FALSE, writer |-> writer]
    ELSE IF table[Head(input)] = <<>>
         THEN [fault |-> TRUE, writer |-> writer]
         ELSE WriteCodes(Tail(input), table, writeCode(writer, table[Head(input)]))

\* encodeBuffer once the tree is built
HuffmanEncodeWithTree(input, meta, tree) ==
    IF tree.root = nullptr
    THEN [fault |-> "none", metadata |-> meta, compressed |-> <<>>]
    ELSE With(WriteCodes(input,
                         buildCodeTable(tree.storage, tree.root, <<>>, EmptyCodeTable),
                         NewBitWriter),
              LAMBDA w :
                  IF w.fault
                  THEN [fault |-> "Invalid Huffman code table entry",
                        metadata |-> meta, compressed |-> <<>>]
                  ELSE [fault |-> "none", metadata |-> meta,
                        compressed |-> finish(w.writer)])

HuffmanEncodeBuffer(input, tie) ==
    IF input = <<>>
    THEN [fault |-> "none",
          metadata |-> [frequencies |-> ZeroTable, originalSize |-> 0],
          compressed |-> <<>>]
    ELSE With(CountFrequencies(input, ZeroTable), LAMBDA frequencies :
             HuffmanEncodeWithTree(input,
                 [frequencies |-> frequencies, originalSize |-> Len(input)],
                 buildTree(frequencies, tie)))

\* the bit loop of decodeBuffer
\* one bit of the loop: the node reached, or a fault
HuffmanDecodeBit(storage, current, rb) ==
    IF ~rb.ok THEN [fault |-> "Unexpected end of compressed stream", node |-> nullptr]
    ELSE With(IF rb.bit THEN storage[current].right ELSE storage[current].left,
              LAMBDA next :
                  IF next = nullptr
                  THEN [fault |-> "Corrupted Huffman tree traversal", node |-> nullptr]
                  ELSE [fault |-> "none", node |-> next])

IsLeaf(storage, node) ==
    storage[node].left = nullptr /\ storage[node].right = nullptr

RECURSIVE HuffmanDecodeLoop(_, _, _, _, _, _, _)
HuffmanDecodeLoop(storage, root, current, reader, output, data, originalSize) ==
    IF Len(output) >= originalSize
    THEN [fault |-> "none", output |-> output, reader |-> reader]
    ELSE With(readBit(reader, data), LAMBDA rb :
           With(HuffmanDecodeBit(storage, current, rb), LAMBDA step :
             IF step.fault # "none"
             THEN [fault |-> step.fault, output |-> <<>>, reader |-> rb.reader]
             ELSE IF IsLeaf(storage, step.node)
                  THEN HuffmanDecodeLoop(storage, root, root, rb.reader,
                           Append(output, storage[step.node].symbol % U8),
                           data, originalSize)
                  ELSE HuffmanDecodeLoop(storage, root, step.node, rb.reader,
                           output, data, originalSize)))

\* what decodeBuffer hands back once the loop is over: the output, or the
\* fault; the reader is a local
Returned(loop) == [fault |-> loop.fault, output |-> loop.output]

\* decodeBuffer once the tree is built
HuffmanDecodeWithTree(metadata, compressed, tree) ==
    IF tree.root = nullptr
    THEN [fault |-> "Invalid Huffman metadata: empty tree with non-zero size",
          output |-> <<>>]
    ELSE IF IsLeaf(tree.storage, tree.root)
         THEN [fault |-> "none",
               output |-> [i \in 1..metadata.originalSize |->
                               tree.storage[tree.root].symbol % U8]]
         ELSE Returned(HuffmanDecodeLoop(tree.storage, tree.root, tree.root,
                                         NewBitReader, <<>>, compressed,
                                         metadata.originalSize))

\* a decoder that builds the tree even when originalSize is 0
HuffmanDecodeBufferNoEmptyCase(metadata, compressed, tie) ==
    HuffmanDecodeWithTree(metadata, compressed,
                          buildTree(metadata.frequencies, tie))

HuffmanDecodeBuffer(metadata, compressed, tie) ==
    IF metadata.originalSize = 0 THEN [fault |-> "none", output |-> <<>>]
    ELSE HuffmanDecodeWithTree(metadata, compressed,
                               buildTree(metadata.frequencies, tie))

(***************************************************************************)
(* LZW codec  (src/src/compression/lzw/codec.cpp)                          *)
(***************************************************************************)
kInitialDictionarySize == 256
\* 4096 in the source, scaled by DictGrowth
kMaxDictionarySize == kInitialDictionarySize + DictGrowth

\* static_cast<char>(byte) and the conversion back on output
ToChar(byte) == IF byte >= 128 THEN byte - U8 ELSE byte
ToByte(char) == char % U8

ToBytes(str) == [i \in 1..Len(str) |-> ToByte(str[i])]

\* the encoder's dictionary: string -> code, preloaded with the single bytes
EncoderInitialDictionary ==
    [str \in {<<ToChar(code)>> : code \in 0..(kInitialDictionarySize - 1)} |->
        ToByte(str[1])]

LzwEncoderInit ==
    [dictionary |-> EncoderInitialDictionary, nextCode |-> kInitialDictionarySize,
     current |-> <<>>, codes |-> <<>>, fault |-> "none"]

\* an encoder that goes on adding entries past kMaxDictionarySize
LzwEncodeStepUncapped(e, byte) ==
    LET character == ToChar(byte)
        combined  == Append(e.current, character)
    IN  IF combined \in DOMAIN e.dictionary
        THEN [e EXCEPT !.current = combined]
        ELSE IF e.current = <<>>
             THEN [e EXCEPT !.fault = "LZW encoder encountered empty current sequence"]
             ELSE IF e.current \notin DOMAIN e.dictionary
             THEN [e EXCEPT !.fault = "out_of_range"]
             ELSE [e EXCEPT
                     !.codes = Append(@, e.dictionary[e.current]),
                     !.dictionary = @ @@ (combined :> e.nextCode),
                     !.nextCode = (@ + 1) % U16,
                     !.current = <<character>>]

\* one iteration of the loop over the input bytes; dictionary.at(current)
\* throws std::out_of_range for a string the dictionary does not hold
LzwEncodeStep(e, byte) ==
    LET character == ToChar(byte)
        combined  == Append(e.current, character)
    IN  IF combined \in DOMAIN e.dictionary
        THEN [e EXCEPT !.current = combined]
        ELSE IF e.current = <<>>
             THEN [e EXCEPT !.fault = "LZW encoder encountered empty current sequence"]
             ELSE IF e.current \notin DOMAIN e.dictionary
             THEN [e EXCEPT !.fault = "out_of_range"]
             ELSE [e EXCEPT
                     !.codes = Append(@, e.dictionary[e.current]),
                     !.dictionary = IF e.nextCode < kMaxDictionarySize
                                    THEN @ @@ (combined :> e.nextCode)
                                    ELSE @,
                     !.nextCode = IF e.nextCode < kMaxDictionarySize
                                  THEN (@ + 1) % U16 ELSE @,
                     !.current = <<character>>]

\* an encoder that forgets the sequence pending when the input ends
LzwEncodeFinishDropsPending(e) == e

\* after the loop: the code of what is left in current
LzwEncodeFinish(e) ==
    IF e.fault = "none" /\ e.current # <<>>
    THEN IF e.current \notin DOMAIN e.dictionary
         THEN [e EXCEPT !.fault = "out_of_range"]
         ELSE [e EXCEPT !.codes = Append(@, e.dictionary[e.current])]
    ELSE e

RECURSIVE LzwEncodeLoop(_, _)
LzwEncodeLoop(e, input) ==
    IF input = <<>> \/ e.fault # "none" THEN e
    ELSE LzwEncodeLoop(LzwEncodeStep(e, Head(input)), Tail(input))

LzwEncodeResult(input, e) ==
    IF e.fault # "none"
    THEN [fault |-> e.fault,
          metadata |-> [originalSize |-> Len(input), dictionarySize |-> 0],
          codes |-> <<>>]
    ELSE [fault |-> "none",
          metadata |-> [originalSize |-> Len(input), dictionarySize |-> e.nextCode],
          codes |-> e.codes]

LzwEncodeBuffer(input) ==
    IF input = <<>>
    THEN [fault |-> "none", metadata |-> [originalSize |-> 0, dictionarySize |-> 0],
          codes |-> <<>>]
    ELSE LzwEncodeResult(input, LzwEncodeFinish(LzwEncodeLoop(LzwEncoderInit, input)))

\* the decoder's dictionary: a vector indexed by code (code c is entry c + 1)
DecoderInitialDictionary ==
    [i \in 1..kInitialDictionarySize |-> <<ToChar(i - 1)>>]

\* the decoder after the first code
LzwDecoderInit(firstCode) ==
    IF firstCode >= Len(DecoderInitialDictionary)
    THEN [dictionary |-> DecoderInitialDictionary, nextCode |-> kInitialDictionarySize,
          current |-> <<>>, output |-> <<>>, fault |-> "Invalid first LZW code"]
    ELSE [dictionary |-> DecoderInitialDictionary, nextCode |-> kInitialDictionarySize,
          current |-> DecoderInitialDictionary[firstCode + 1],
          output |-> ToBytes(DecoderInitialDictionary[firstCode + 1]),
          fault |-> "none"]

\* a decoder that only accepts the codes its dictionary already holds
LzwDecodeStepKnownCodesOnly(d, code) ==
    IF code >= Len(d.dictionary)
    THEN [d EXCEPT !.fault = "Invalid LZW code encountered during decoding"]
    ELSE [d EXCEPT
            !.output = @ \o ToBytes(d.dictionary[code + 1]),
            !.dictionary = IF d.nextCode < kMaxDictionarySize
                           THEN Append(@, Append(d.current, d.dictionary[code + 1][1]))
                           ELSE @,
            !.nextCode = IF d.nextCode < kMaxDictionarySize
                         THEN (@ + 1) % U16 ELSE @,
            !.current = d.dictionary[code + 1]]

\* a decoder that goes on adding entries past kMaxDictionarySize
LzwDecodeStepUncapped(d, code) ==
    IF code >= Len(d.dictionary) /\ code # d.nextCode
    THEN [d EXCEPT !.fault = "Invalid LZW code encountered during decoding"]
    ELSE LET entry == IF code < Len(d.dictionary)
                      THEN d.dictionary[code + 1]
                      ELSE Append(d.current, d.current[1])
         IN  [d EXCEPT
                !.output = @ \o ToBytes(entry),
                !.dictionary = Append(@, Append(d.current, entry[1])),
                !.nextCode = (@ + 1) % U16,
                !.current = entry]

\* a decoder that takes every code it does not hold for the next code
LzwDecodeStepAnyUnknownIsNext(d, code) ==
    LET entry == IF code < Len(d.dictionary)
                 THEN d.dictionary[code + 1]
                 ELSE Append(d.current, d.current[1])
    IN  [d EXCEPT
           !.output = @ \o ToBytes(entry),
           !.dictionary = IF d.nextCode < kMaxDictionarySize
                          THEN Append(@, Append(d.current, entry[1]))
                          ELSE @,
           !.nextCode = IF d.nextCode < kMaxDictionarySize
                        THEN (@ + 1) % U16 ELSE @,
           !.current = entry]

\* a decoder that enters the string it has just read, not the previous
\* string extended by that string's first character
LzwDecodeStepEntersEntry(d, code) ==
    IF code >= Len(d.dictionary) /\ code # d.nextCode
    THEN [d EXCEPT !.fault = "Invalid LZW code encountered during decoding"]
    ELSE LET entry == IF code < Len(d.dictionary)
                      THEN d.dictionary[code + 1]
                      ELSE Append(d.current, d.current[1])
         IN  [d EXCEPT
                !.output = @ \o ToBytes(entry),
                !.dictionary = IF d.nextCode < kMaxDictionarySize
                               THEN Append(@, Append(entry, d.current[1]))
                               ELSE @,
                !.nextCode = IF d.nextCode < kMaxDictionarySize
                             THEN (@ + 1) % U16 ELSE @,
                !.current = entry]

\* one iteration of the loop over the codes after the first
LzwDecodeStep(d, code) ==
    IF code >= Len(d.dictionary) /\ code # d.nextCode
    THEN [d EXCEPT !.fault = "Invalid LZW code encountered during decoding"]
    ELSE LET entry == IF code < Len(d.dictionary)
                      THEN d.dictionary[code + 1]
                      ELSE Append(d.current, d.current[1])
         IN  [d EXCEPT
                !.output = @ \o ToBytes(entry),
                !.dictionary = IF d.nextCode < kMaxDictionarySize
                               THEN Append(@, Append(d.current, entry[1]))
                               ELSE @,
                !.nextCode = IF d.nextCode < kMaxDictionarySize
                             THEN (@ + 1) % U16 ELSE @,
                !.current = entry]

RECURSIVE LzwDecodeLoop(_, _)
LzwDecodeLoop(d, codes) ==
    IF codes = <<>> \/ d.fault # "none" THEN d
    ELSE LzwDecodeLoop(LzwDecodeStep(d, Head(codes)), Tail(codes))

\* output.resize(n): truncates, or pads with zero bytes
Resize(output, n) == [i \in 1..n |-> IF i <= Len(output) THEN output[i] ELSE 0]

LzwDecodeResult(metadata, d) ==
    IF d.fault # "none" THEN [fault |-> d.fault, output |-> <<>>]
    ELSE [fault |-> "none",
          output |-> IF Len(d.output) # metadata.originalSize
                     THEN Resize(d.output, metadata.originalSize)
                     ELSE d.output]

LzwDecodeBuffer(metadata, codes) ==
    IF metadata.originalSize = 0 THEN [fault |-> "none", output |-> <<>>]
    ELSE IF codes = <<>>
         THEN [fault |-> "LZW decoder received empty code stream for non-empty file",
               output |-> <<>>]
         ELSE LzwDecodeResult(metadata,
                  LzwDecodeLoop(LzwDecoderInit(Head(codes)), Tail(codes)))

(***************************************************************************)
(* Container framing  (src/src/compression/huffman.cpp, lzw.cpp).          *)
(* A file is the sequence of its bytes; an input stream is the data and a  *)
(* read position.                                                          *)
(***************************************************************************)
kFormatVersion == 1
HuffmanFileMagic    == <<71, 72, 85, 70>>    \* "GHUF"
HuffmanArchiveMagic == <<71, 72, 65, 82>>    \* "GHAR"
LzwFileMagic        == <<71, 76, 90, 87>>    \* "GLZW"
LzwArchiveMagic     == <<71, 76, 90, 65>>    \* "GLZA"

\* writeValue: the width bytes of value, least significant first
RECURSIVE writeValue(_, _)
writeValue(value, width) ==
    IF width = 0 THEN <<>>
    ELSE <<value % U8>> \o writeValue(value \div U8, width - 1)

RECURSIVE FromLE(_)
FromLE(bytes) ==
    IF bytes = <<>> THEN 0 ELSE Head(bytes) + U8 * FromLE(Tail(bytes))

\* input.read of n bytes at pos: ok = FALSE on a short read
ReadN(data, pos, n) ==
    IF pos + n <= Len(data)
    THEN [ok |-> TRUE, bytes |-> SubSeq(data, pos + 1, pos + n), pos |-> pos + n]
    ELSE [ok |-> FALSE, bytes |-> <<>>, pos |-> pos]

\* readValue<T>: ok = FALSE on a short read
readValue(data, pos, width) ==
    IF pos + width <= Len(data)
    THEN [ok |-> TRUE, value |-> FromLE(SubSeq(data, pos + 1, pos + width))]
    ELSE [ok |-> FALSE, value |-> 0]

writeFrequencies(frequencies) ==
    [i \in 1..(4 * 256) |-> writeValue(frequencies[(i - 1) \div 4], 4)[((i - 1) % 4) + 1]]

readFrequencies(data, pos) ==
    IF pos + 4 * 256 <= Len(data)
    THEN [ok |-> TRUE,
          frequencies |-> [sym \in 0..255 |->
                              FromLE(SubSeq(data, pos + 4 * sym + 1, pos + 4 * sym + 4))],
          pos |-> pos + 4 * 256]
    ELSE [ok |-> FALSE, frequencies |-> ZeroTable, pos |-> pos]

\* the magic, version and padding every container starts with
WritePreamble(magic) == magic \o <<kFormatVersion>> \o <<0, 0, 0>>

\* reading them back: the fault, and the position after the padding
ReadPreamble(data, magic) ==
    IF ~ReadN(data, 0, 4).ok THEN "Failed to read magic"
    ELSE IF ReadN(data, 0, 4).bytes # magic THEN "Invalid magic"
    ELSE IF ~readValue(data, 4, 1).ok THEN "Failed to read binary value"
    ELSE IF readValue(data, 4, 1).value # kFormatVersion THEN "Unsupported version"
    ELSE IF ~ReadN(data, 5, 3).ok THEN "Failed to read padding"
    ELSE "none"

(* ---- Huffman single file ---- *)
HuffmanWriteFileHeader(metadata, compressedSize) ==
    WritePreamble(HuffmanFileMagic)
        \o writeValue(metadata.originalSize, 8)
        \o writeValue(compressedSize, 8)
        \o writeFrequencies(metadata.frequencies)

\* compressFile after the codec ran: the bytes of the destination file
HuffmanWriteFile(result) ==
    HuffmanWriteFileHeader(result.metadata, Len(result.compressed))
        \o result.compressed

\* readFileHeader: the fields sit at fixed offsets after the 8-byte preamble
HuffmanReadFileHeader(data) ==
    [fault |-> IF ReadPreamble(data, HuffmanFileMagic) # "none"
               THEN ReadPreamble(data, HuffmanFileMagic)
               ELSE IF ~readFrequencies(data, 24).ok
                    THEN "Failed to read binary value"
               ELSE "none",
     metadata |-> [frequencies |-> readFrequencies(data, 24).frequencies,
                   originalSize |-> readValue(data, 8, 8).value],
     compressedSize |-> readValue(data, 16, 8).value,
     pos |-> 24 + 4 * 256]

HuffmanDecodePayload(header, payload, tie) ==
    IF ~payload.ok
    THEN [fault |-> "Failed to read compressed payload", output |-> <<>>]
    ELSE HuffmanDecodeBuffer(header.metadata, payload.bytes, tie)

\* decompressFile: the fault, or the bytes written to the destination
HuffmanDecompressHeader(data, header, tie) ==
    IF header.fault # "none" THEN [fault |-> header.fault, output |-> <<>>]
    ELSE HuffmanDecodePayload(header,
                              ReadN(data, header.pos, header.compressedSize), tie)

HuffmanDecompressFile(data, tie) ==
    HuffmanDecompressHeader(data, HuffmanReadFileHeader(data), tie)

(* ---- LZW single file ---- *)
LzwWriteFileHeader(metadata, codeCount) ==
    WritePreamble(LzwFileMagic)
        \o writeValue(metadata.originalSize, 8)
        \o writeValue(metadata.dictionarySize, 2)
        \o writeValue(codeCount, 8)

\* the code stream as stored: each std::uint16_t in two bytes
WriteCodeStream(codes) ==
    [i \in 1..(2 * Len(codes)) |-> writeValue(codes[(i + 1) \div 2], 2)[((i - 1) % 2) + 1]]

ReadCodeStream(bytes) ==
    [i \in 1..(Len(bytes) \div 2) |-> FromLE(SubSeq(bytes, 2 * i - 1, 2 * i))]

LzwWriteFile(result) ==
    LzwWriteFileHeader(result.metadata, Len(result.codes))
        \o WriteCodeStream(result.codes)

LzwReadFileHeader(data) ==
    [fault |-> IF ReadPreamble(data, LzwFileMagic) # "none"
               THEN ReadPreamble(data, LzwFileMagic)
               ELSE IF ~readValue(data, 18, 8).ok
                    THEN "Failed to read binary value"
               ELSE "none",
     metadata |-> [originalSize |-> readValue(data, 8, 8).value,
                   dictionarySize |-> readValue(data, 16, 2).value],
     codeCount |-> readValue(data, 18, 8).value,
     pos |-> 26]

LzwDecodePayload(header, stream) ==
    IF ~stream.ok
    THEN [fault |-> "Failed to read LZW code stream", output |-> <<>>]
    ELSE LzwDecodeBuffer(header.metadata, ReadCodeStream(stream.bytes))

LzwDecompressHeader(data, header) ==
    IF header.fault # "none" THEN [fault |-> header.fault, output |-> <<>>]
    ELSE LzwDecodePayload(header, ReadN(data, header.pos, 2 * header.codeCount))

LzwDecompressFile(data) ==
    LzwDecompressHeader(data, LzwReadFileHeader(data))

(* ---- archives: entries are [relativePath, metadata, payload] ---- *)
\* the frame of one entry (the loop body of compressDirectory's write phase)
HuffmanWriteArchiveEntry(entry) ==
    writeValue(Len(entry.relativePath), 4)
        \o entry.relativePath
        \o writeValue(entry.metadata.originalSize, 8)
        \o writeValue(Len(entry.payload), 8)
        \o writeFrequencies(entry.metadata.frequencies)
        \o entry.payload

LzwWriteArchiveEntry(entry) ==
    writeValue(Len(entry.relativePath), 4)
        \o entry.relativePath
        \o writeValue(entry.metadata.originalSize, 8)
        \o writeValue(entry.metadata.dictionarySize, 2)
        \o writeValue(Len(entry.payload), 8)
        \o WriteCodeStream(entry.payload)

WriteArchiveEntry(algo_, entry) ==
    IF algo_ = "huffman" THEN HuffmanWriteArchiveEntry(entry)
    ELSE LzwWriteArchiveEntry(entry)

ArchiveMagic(algo_) ==
    IF algo_ = "huffman" THEN HuffmanArchiveMagic ELSE LzwArchiveMagic

RECURSIVE WriteArchiveEntries(_, _)
WriteArchiveEntries(algo_, list) ==
    IF list = <<>> THEN <<>>
    ELSE WriteArchiveEntry(algo_, Head(list))
             \o WriteArchiveEntries(algo_, Tail(list))

\* a write phase that stores the count before any result was collected
WriteArchiveCountFirst(algo_, list) ==
    WritePreamble(ArchiveMagic(algo_))
        \o writeValue(0, 4)
        \o WriteArchiveEntries(algo_, list)

\* the write phase of compressDirectory: header, fileCount, then the frames
WriteArchive(algo_, list) ==
    WritePreamble(ArchiveMagic(algo_))
        \o writeValue(Len(list), 4)
        \o WriteArchiveEntries(algo_, list)

\* one entry frame read at pos (the loop body of decompressDirectory); at
\* is the position after the path
HuffmanReadEntryBody(data, path, at, csz) ==
    [ok |-> path.ok /\ csz.ok /\ readFrequencies(data, at + 16).ok
               /\ ReadN(data, at + 16 + 4 * 256, csz.value).ok,
     entry |-> [relativePath |-> path.bytes,
                metadata |-> [frequencies |-> readFrequencies(data, at + 16).frequencies,
                              originalSize |-> readValue(data, at, 8).value],
                payload |-> ReadN(data, at + 16 + 4 * 256, csz.value).bytes],
     pos |-> at + 16 + 4 * 256 + csz.value]

LzwReadEntryBody(data, path, at, cnt) ==
    [ok |-> path.ok /\ cnt.ok /\ ReadN(data, at + 18, 2 * cnt.value).ok,
     entry |-> [relativePath |-> path.bytes,
                metadata |-> [originalSize |-> readValue(data, at, 8).value,
                              dictionarySize |-> readValue(data, at + 8, 2).value],
                payload |-> ReadCodeStream(ReadN(data, at + 18, 2 * cnt.value).bytes)],
     pos |-> at + 18 + 2 * cnt.value]

ReadEntryAfterPath(algo_, data, path) ==
    IF ~path.ok THEN [ok |-> FALSE, entry |-> <<>>, pos |-> 0]
    ELSE IF algo_ = "huffman"
         THEN HuffmanReadEntryBody(data, path, path.pos,
                                   readValue(data, path.pos + 8, 8))
         ELSE LzwReadEntryBody(data, path, path.pos,
                               readValue(data, path.pos + 10, 8))

ReadArchiveEntry(algo_, data, pos, psz) ==
    IF ~psz.ok THEN [ok |-> FALSE, entry |-> <<>>, pos |-> 0]
    ELSE ReadEntryAfterPath(algo_, data, ReadN(data, pos + 4, psz.value))

RECURSIVE ReadArchiveEntries(_, _, _, _, _)
ReadArchiveEntries(algo_, data, pos, remaining, acc) ==
    IF remaining = 0 THEN [fault |-> "none", entries |-> acc]
    ELSE With(ReadArchiveEntry(algo_, data, pos, readValue(data, pos, 4)),
              LAMBDA r :
                  IF ~r.ok THEN [fault |-> "Failed to read archive entry",
                                 entries |-> <<>>]
                  ELSE ReadArchiveEntries(algo_, data, r.pos, remaining - 1,
                                          Append(acc, r.entry)))

\* the parse phase of decompressDirectory: the fault, or the pending entries
ReadArchive(algo_, data) ==
    IF ReadPreamble(data, ArchiveMagic(algo_)) # "none"
    THEN [fault |-> ReadPreamble(data, ArchiveMagic(algo_)), entries |-> <<>>]
    ELSE IF ~readValue(data, 8, 4).ok
         THEN [fault |-> "Failed to read binary value", entries |-> <<>>]
         ELSE ReadArchiveEntries(algo_, data, 12, readValue(data, 8, 4).value, <<>>)

\* the codec of an algorithm on a whole buffer: [fault, metadata, payload]
HuffmanResult(r) ==
    [fault |-> r.fault, metadata |-> r.metadata, payload |-> r.compressed]

LzwResult(r) ==
    [fault |-> r.fault, metadata |-> r.metadata, payload |-> r.codes]

Encode(algo_, buffer, tie_) ==
    IF algo_ = "huffman" THEN HuffmanResult(HuffmanEncodeBuffer(buffer, tie_))
    ELSE LzwResult(LzwEncodeBuffer(buffer))

Decode(algo_, metadata, payload, tie_) ==
    IF algo_ = "huffman" THEN HuffmanDecodeBuffer(metadata, payload, tie_)
    ELSE LzwDecodeBuffer(metadata, payload)

(***************************************************************************)
(* State.                                                                  *)
(***************************************************************************)
VARIABLES
    \* ---- ThreadPool (include/concurrency/thread_pool.hpp) ----
    threadCountArg, \* the threadCount the constructor was called with
    workers,        \* workers_: the ids of the worker threads
    tasks,          \* tasks_: the queue, ids of packaged tasks
    stop,           \* stop_
    wpc,            \* each worker's position in workerLoop
    wtask,          \* the task a worker has dequeued (0: none)
    dtor,           \* position of ~ThreadPool: "none", "alive", "stopped",
                    \*   "notified", "joined"
    notifyPending,  \* cv_.notify_one() calls of enqueue not yet made
    closures,       \* the packaged tasks, by id (submission order)
    future,         \* the shared state behind each task's future
    \* ---- callers of the pool, and what they observed ----
    got,            \* what future.get() returned to the caller, by task id
    rejected,       \* ids of the submissions enqueue threw on
    queuedAtStop,   \* the tasks that were in tasks_ when stop_ was set
    lateSubmissions,\* ids of the submissions made when stop_ was already set
    executed,       \* how many times each task was run
    outOfOrder,     \* TRUE once a task finished before an earlier submission
    \* ---- the archiver ----
    algo,           \* "huffman" or "lzw"
    tie,            \* the heap's choice among equal nodes (see QueueTop)
    pc,             \* position of the coordinator / of the single-file run
    tree,           \* the source tree: relative path -> bytes
    entries,        \* listEntries(): the paths in enumeration order
    compressedEntries, \* results collected by compressDirectory
    pendingEntries, \* the PendingEntry vector decompressDirectory parsed
    archive,        \* the archive file: <<>> when absent, else <<bytes>>
    destRoot,       \* TRUE once the destination root was created
    restored,       \* the files under the destination root: path -> bytes
    opFault,        \* the fault the running operation ended with
    \* ---- single-file and buffer operations ----
    input,          \* the source buffer
    result,         \* what encodeBuffer returned
    decoded,        \* what decodeBuffer returned
    fileBytes,      \* the file compressFile wrote
    restoredFile,   \* what decompressFile wrote
    bitIo           \* a BitWriter and a BitReader at work on one bit sequence

poolVars   == <<threadCountArg, workers, tasks, stop, wpc, wtask, dtor, notifyPending,
                closures, future>>
callerVars == <<got, rejected, queuedAtStop, lateSubmissions, executed,
                outOfOrder>>
dirVars    == <<tree, entries, compressedEntries, pendingEntries, archive,
                destRoot, restored, opFault>>
fileVars   == <<input, result, decoded, fileBytes, restoredFile, bitIo>>
vars       == <<poolVars, callerVars, algo, tie, pc, dirVars, fileVars>>

(***************************************************************************)
(* ThreadPool                                                              *)
(***************************************************************************)
\* what std::thread::hardware_concurrency() may return (0: not computable)
HardwareConcurrency == {0, 1, MaxThreads}

\* a constructor that takes hardware_concurrency() as it comes, 0 included
ResolveThreadCountUnclamped(threadCount, hardware) ==
    IF threadCount = 0 THEN hardware ELSE threadCount

\* ThreadPool::ThreadPool: the number of workers for a requested count
ResolveThreadCount(threadCount, hardware) ==
    IF threadCount = 0 THEN Max({1, hardware}) ELSE threadCount

\* a fault is <<message, origin>>; no fault is the empty tuple
NoFault == <<>>

PendingFuture == [state |-> "pending", fault |-> NoFault, value |-> <<>>]
NoFuture      == [state |-> "none", fault |-> NoFault, value |-> <<>>]

\* the workers the constructor starts for a resolved count
WorkersOf(n) == 1..n

\* the pool right after its constructor: the workers at the top of workerLoop
PoolConstructed(threadCount, hardware) ==
    /\ threadCountArg' = threadCount
    /\ workers' = WorkersOf(ResolveThreadCount(threadCount, hardware))
    /\ tasks' = <<>>
    /\ stop' = FALSE
    /\ wpc' = [w \in WorkersOf(ResolveThreadCount(threadCount, hardware)) |-> "idle"]
    /\ wtask' = [w \in WorkersOf(ResolveThreadCount(threadCount, hardware)) |-> 0]
    /\ dtor' = "alive"
    /\ notifyPending' = 0
    /\ closures' = <<>>
    /\ future' = <<>>

\* enqueue without the stop_ test
EnqueueNeverRejects == FALSE

\* enqueue's test under the lock: the submission is refused
EnqueueRejects == stop

\* every closure sharing the first packaged task
FutureOfFirst(id) == 1

\* the shared state the closure of packaged task id fulfils
FutureOf(id) == id

\* enqueue(c) up to the end of its locked block
Enqueue(c) ==
    LET id == Len(closures) + 1
    IN  /\ closures' = Append(closures, c)
        /\ got' = Append(got, NoFuture)
        /\ executed' = Append(executed, 0)
        /\ lateSubmissions' = IF stop THEN lateSubmissions \cup {id}
                              ELSE lateSubmissions
        /\ IF EnqueueRejects
           THEN /\ rejected' = rejected \cup {id}
                /\ future' = Append(future, NoFuture)
                /\ UNCHANGED <<tasks, notifyPending>>
           ELSE /\ tasks' = Append(tasks, id)
                /\ future' = Append(future, PendingFuture)
                /\ notifyPending' = notifyPending + 1
                /\ UNCHANGED rejected

\* cv_.notify_one() at the end of enqueue: wakes one waiting worker, if any
NotifyOne ==
    /\ notifyPending > 0
    /\ notifyPending' = notifyPending - 1
    /\ IF \E w \in workers : wpc[w] = "blocked"
       THEN \E w \in {v \in workers : wpc[v] = "blocked"} :
                wpc' = [wpc EXCEPT ![w] = "idle"]
       ELSE UNCHANGED wpc
    /\ UNCHANGED <<threadCountArg, workers, tasks, stop, wtask, dtor, closures, future>>
    /\ UNCHANGED <<callerVars, algo, tie, pc, dirVars, fileVars>>

\* a condition variable may wake a waiter without a notification
SpuriousWake(w) ==
    /\ wpc[w] = "blocked"
    /\ wpc' = [wpc EXCEPT ![w] = "idle"]
    /\ UNCHANGED <<threadCountArg, workers, tasks, stop, wtask, dtor, notifyPending, closures, future>>
    /\ UNCHANGED <<callerVars, algo, tie, pc, dirVars, fileVars>>

\* the predicate of cv_.wait
WaitPredicate == stop \/ tasks # <<>>

\* a worker that returns as soon as stop_ is set, leaving the queue
WorkerExitsOnStop == stop

\* workerLoop's test after the wait: the worker returns
WorkerExits == stop /\ tasks = <<>>

\* a locked block that takes the front task without popping it
WorkerLockedWithoutPop(w) ==
    /\ wpc[w] = "idle"
    /\ IF ~WaitPredicate
       THEN /\ wpc' = [wpc EXCEPT ![w] = "blocked"]
            /\ UNCHANGED <<tasks, wtask>>
       ELSE IF WorkerExits
            THEN /\ wpc' = [wpc EXCEPT ![w] = "exited"]
                 /\ UNCHANGED <<tasks, wtask>>
            ELSE /\ wpc' = [wpc EXCEPT ![w] = "running"]
                 /\ wtask' = [wtask EXCEPT ![w] = Head(tasks)]
                 /\ UNCHANGED tasks
    /\ UNCHANGED <<threadCountArg, workers, stop, dtor, notifyPending, closures, future>>
    /\ UNCHANGED <<callerVars, algo, tie, pc, dirVars, fileVars>>

\* workerLoop's locked block: wait on the predicate, then return or dequeue
WorkerLocked(w) ==
    /\ wpc[w] = "idle"
    /\ IF ~WaitPredicate
       THEN /\ wpc' = [wpc EXCEPT ![w] = "blocked"]
            /\ UNCHANGED <<tasks, wtask>>
       ELSE IF WorkerExits
            THEN /\ wpc' = [wpc EXCEPT ![w] = "exited"]
                 /\ UNCHANGED <<tasks, wtask>>
            ELSE /\ wpc' = [wpc EXCEPT ![w] = "running"]
                 /\ wtask' = [wtask EXCEPT ![w] = Head(tasks)]
                 /\ tasks' = Tail(tasks)
    /\ UNCHANGED <<threadCountArg, workers, stop, dtor, notifyPending, closures, future>>
    /\ UNCHANGED <<callerVars, algo, tie, pc, dirVars, fileVars>>

\* the outcomes the environment allows the file access of a task: reading
\* the source may fail; opening or writing the destination may fail
IoOutcomes(c) ==
    IF c.kind = "compress" THEN {"ok", "read_fault"}
    ELSE IF c.kind = "decompress" THEN {"ok", "open_fault", "write_fault"}
    ELSE {"ok"}

\* the part of a relative path after its last '/'
Basename(path) ==
    IF \E i \in 1..Len(path) : path[i] = 47
    THEN SubSeq(path, Max({i \in 1..Len(path) : path[i] = 47}) + 1, Len(path))
    ELSE path

\* a writer that puts every file directly under the destination root
writeBufferToFileFlat(files, path, data) ==
    [p \in (DOMAIN files) \cup {Basename(path)} |->
        IF p = Basename(path) THEN data ELSE files[p]]

\* a writer that reports success and writes nothing
writeBufferToFileNothing(files, path, data) == files

\* writeBufferToFile: the files under the destination root afterwards
writeBufferToFile(files, path, data) ==
    [p \in (DOMAIN files) \cup {path} |-> IF p = path THEN data ELSE files[p]]

\* compressEntry after the file was read and encoded
CompressOutcome(c, r) ==
    IF r.fault # "none"
    THEN [fault |-> <<r.fault, c.arg>>, value |-> <<>>, file |-> <<>>]
    ELSE [fault |-> NoFault,
          value |-> <<[relativePath |-> c.path, metadata |-> r.metadata,
                       payload |-> r.payload]>>,
          file |-> <<>>]

\* the decompression lambda after decode: the bytes go to writeBufferToFile,
\* whose ofstream creates the file before the write that may fail; file is
\* what the task leaves at its output path (<<>>: nothing)
DecompressOutcome(c, r, io) ==
    IF r.fault # "none"
    THEN [fault |-> <<r.fault, c.arg>>, value |-> <<>>, file |-> <<>>]
    ELSE IF io = "open_fault"
    THEN [fault |-> <<"Failed to open file for writing", c.arg>>,
          value |-> <<>>, file |-> <<>>]
    ELSE IF io = "write_fault" /\ r.output # <<>>
    THEN [fault |-> <<"Failed to write file contents", c.arg>>,
          value |-> <<>>, file |-> << <<>> >>]
    ELSE [fault |-> NoFault, value |-> <<>>, file |-> <<r.output>>]

\* the body of a packaged task: what it stores in its shared state
\* (std::packaged_task stores the value returned or the exception thrown)
TaskOutcome(c, io) ==
    IF c.kind = "value"
    THEN [fault |-> NoFault, value |-> <<c.arg * c.arg>>, file |-> <<>>]
    ELSE IF c.kind = "fault"
    THEN [fault |-> <<"boom", c.arg>>, value |-> <<>>, file |-> <<>>]
    ELSE IF c.kind = "compress"
    THEN IF io # "ok"
         THEN [fault |-> <<"Failed to read file", c.arg>>, value |-> <<>>,
               file |-> <<>>]
         ELSE CompressOutcome(c, Encode(algo, tree[c.path], tie))
    ELSE DecompressOutcome(c, Decode(algo, c.metadata, c.payload, tie), io)

\* a closure that catches the task's exception and stores nothing of it
TaskEffectsFaultDropped(id, c, out) ==
    /\ future' = [future EXCEPT ![FutureOf(id)] =
                     [state |-> "ready", fault |-> NoFault, value |-> out.value]]
    /\ executed' = [executed EXCEPT ![id] = @ + 1]
    /\ restored' = restored

\* the effects of running task id with closure c
TaskEffects(id, c, out) ==
    /\ future' = [future EXCEPT ![FutureOf(id)] =
                     [state |-> "ready", fault |-> out.fault, value |-> out.value]]
    /\ executed' = [executed EXCEPT ![id] = @ + 1]
    /\ restored' = IF out.file # <<>>
                   THEN writeBufferToFile(restored, c.path, out.file[1])
                   ELSE restored

\* task(): the worker runs the task it dequeued, outside the lock
WorkerRun(w) ==
    /\ wpc[w] = "running"
    /\ \E io \in IoOutcomes(closures[wtask[w]]) :
          TaskEffects(wtask[w], closures[wtask[w]],
                      TaskOutcome(closures[wtask[w]], io))
    /\ wpc' = [wpc EXCEPT ![w] = "idle"]
    /\ wtask' = [wtask EXCEPT ![w] = 0]
    /\ UNCHANGED <<threadCountArg, workers, tasks, stop, dtor, notifyPending, closures>>
    /\ outOfOrder' = (outOfOrder \/ \E id \in 1..(wtask[w] - 1) :
                                        future[id].state = "pending")
    /\ UNCHANGED <<got, rejected, queuedAtStop, lateSubmissions>>
    /\ UNCHANGED <<algo, tie, pc, fileVars>>
    /\ UNCHANGED <<tree, entries, compressedEntries, pendingEntries, archive,
                   destRoot, opFault>>

\* ~ThreadPool, first block: set stop_ under the lock
DtorStop ==
    /\ dtor = "alive"
    /\ stop' = TRUE
    /\ dtor' = "stopped"
    /\ queuedAtStop' = {tasks[i] : i \in 1..Len(tasks)}
    /\ UNCHANGED <<threadCountArg, workers, tasks, wpc, wtask, notifyPending, closures, future>>
    /\ UNCHANGED <<got, rejected, lateSubmissions, executed, outOfOrder>>

\* a destructor that sets the flag but wakes no waiting worker
DtorNotifyNobody ==
    /\ dtor = "stopped"
    /\ dtor' = "notified"
    /\ UNCHANGED <<threadCountArg, workers, tasks, stop, wpc, wtask, notifyPending, closures, future>>
    /\ UNCHANGED <<callerVars, algo, tie, pc, dirVars, fileVars>>

\* ~ThreadPool: cv_.notify_all()
DtorNotifyAll ==
    /\ dtor = "stopped"
    /\ dtor' = "notified"
    /\ wpc' = [w \in workers |-> IF wpc[w] = "blocked" THEN "idle" ELSE wpc[w]]
    /\ UNCHANGED <<threadCountArg, workers, tasks, stop, wtask, notifyPending, closures, future>>
    /\ UNCHANGED <<callerVars, algo, tie, pc, dirVars, fileVars>>

\* where the owner of the pool continues once the destructor has returned
AfterScope(p) ==
    IF p = "c_unwind" THEN "compressFailed"
    ELSE IF p = "c_scope_exit" THEN "c_write"
    ELSE IF p = "d_unwind" THEN "decompressFailed"
    ELSE IF p = "d_scope_exit" THEN "done"
    ELSE p

\* a destructor that returns without waiting for the workers
DtorJoinDetached ==
    /\ dtor = "notified"
    /\ dtor' = "joined"
    /\ pc' = AfterScope(pc)
    /\ UNCHANGED <<threadCountArg, workers, tasks, stop, wpc, wtask, notifyPending, closures, future>>
    /\ UNCHANGED <<callerVars, algo, tie, dirVars, fileVars>>

\* ~ThreadPool: the join loop returns once every worker has returned
DtorJoin ==
    /\ dtor = "notified"
    /\ \A w \in workers : wpc[w] = "exited"
    /\ dtor' = "joined"
    /\ pc' = AfterScope(pc)
    /\ UNCHANGED <<threadCountArg, workers, tasks, stop, wpc, wtask, notifyPending, closures, future>>
    /\ UNCHANGED <<callerVars, algo, tie, dirVars, fileVars>>

(***************************************************************************)
(* The pool under arbitrary callers (tests/thread_pool_tests.cpp): tasks   *)
(* that return i * i or throw are submitted, awaited in any order, and the *)
(* pool is destroyed at any moment.                                        *)
(***************************************************************************)
NoFile == <<>>
NoBitIo == <<>>

IdleDir ==
    /\ tree = <<>> /\ entries = <<>> /\ compressedEntries = <<>>
    /\ pendingEntries = <<>>
    /\ archive = NoFile /\ destRoot = FALSE /\ restored = <<>>
    /\ opFault = NoFault

IdleFile ==
    /\ input = <<>> /\ result = <<>> /\ decoded = <<>>
    /\ fileBytes = NoFile /\ restoredFile = NoFile /\ bitIo = NoBitIo

PoolInit ==
    /\ \E threadCount \in 0..MaxThreads : \E hardware \in HardwareConcurrency :
         LET n == ResolveThreadCount(threadCount, hardware)
         IN  /\ threadCountArg = threadCount
             /\ workers = WorkersOf(n)
             /\ wpc = [w \in WorkersOf(n) |-> "idle"]
             /\ wtask = [w \in WorkersOf(n) |-> 0]
    /\ tasks = <<>> /\ stop = FALSE /\ dtor = "alive" /\ notifyPending = 0
    /\ closures = <<>> /\ future = <<>>
    /\ got = <<>> /\ rejected = {} /\ queuedAtStop = {} /\ executed = <<>>
    /\ lateSubmissions = {} /\ outOfOrder = FALSE
    /\ algo = "none" /\ tie = "oldest" /\ pc = "pool"
    /\ IdleDir /\ IdleFile

\* a caller submits a task while the pool object exists
Submit(kind) ==
    /\ pc = "pool"
    /\ dtor \in {"alive", "stopped", "notified"}
    /\ Len(closures) < MaxTasks
    /\ Enqueue([kind |-> kind, arg |-> Len(closures) + 1])
    /\ UNCHANGED <<threadCountArg, workers, stop, wpc, wtask, dtor, queuedAtStop, outOfOrder>>
    /\ UNCHANGED <<algo, tie, pc, dirVars, fileVars>>

\* future.get() of task id returns (or rethrows) once the state is ready
Get(id) ==
    /\ pc = "pool"
    /\ future[id].state = "ready"
    /\ got[id].state = "none"
    /\ got' = [got EXCEPT ![id] = future[id]]
    /\ UNCHANGED <<poolVars, rejected, queuedAtStop, lateSubmissions, executed,
                   outOfOrder>>
    /\ UNCHANGED <<algo, tie, pc, dirVars, fileVars>>

\* the owner lets the pool go out of scope
Destroy ==
    /\ pc = "pool"
    /\ DtorStop
    /\ UNCHANGED <<algo, tie, pc, dirVars, fileVars>>

PoolNext ==
    \/ \E kind \in {"value", "fault"} : Submit(kind)
    \/ NotifyOne
    \/ \E w \in workers : SpuriousWake(w)
    \/ \E w \in workers : WorkerLocked(w)
    \/ \E w \in workers : WorkerRun(w)
    \/ \E id \in 1..Len(future) : Get(id)
    \/ Destroy
    \/ DtorNotifyAll
    \/ DtorJoin

SpecPool == PoolInit /\ [][PoolNext]_vars

(***************************************************************************)
(* Properties of the pool.                                                 *)
(***************************************************************************)
Accepted == (1..Len(closures)) \ rejected

\* C5: whatever future.get() returned for a submission is the result of the
\* task passed to that submission (task i returns i * i, or throws its own
\* exception), whichever worker ran it and in whatever order tasks finished
C5_FutureYieldsOwnResult ==
    \A id \in 1..Len(got) :
        got[id].state = "ready" =>
            IF closures[id].kind = "value"
            THEN got[id].fault = NoFault /\ got[id].value = <<id * id>>
            ELSE got[id].fault = <<"boom", id>> /\ got[id].value = <<>>

\* three results obtained, the third before the first was even computed
C5_Witness ==
    /\ Cardinality(workers) = 2
    /\ Len(got) = 3
    /\ got[3].state = "ready" /\ got[2].state = "ready"
    /\ future[1].state = "pending"

\* C6: a task that threw has its exception in its own shared state once it
\* ran, awaiting it re-raises that exception, and no other future carries it
C6_FaultInOwnFuture ==
    \A id \in 1..Len(future) :
        /\ (closures[id].kind = "fault" /\ executed[id] > 0) =>
               (future[id].state = "ready" /\ future[id].fault = <<"boom", id>>)
        /\ (closures[id].kind = "fault" /\ got[id].state = "ready") =>
               got[id].fault = <<"boom", id>>
        /\ closures[id].kind = "value" =>
               (future[id].fault = NoFault /\ got[id].fault = NoFault)

\* a faulting task ran between two tasks that returned, and was awaited
C6_Witness ==
    /\ Len(got) = 3
    /\ closures[1].kind = "value" /\ closures[2].kind = "fault"
    /\ closures[3].kind = "value"
    /\ got[2].state = "ready" /\ got[1].state = "ready" /\ got[3].state = "ready"

\* C9: a submission made once stop_ is set throws: it is recorded as
\* rejected, never enters the queue, is handed no future and never runs
C9_LateSubmissionRejected ==
    \A id \in lateSubmissions :
        /\ id \in rejected
        /\ \A i \in 1..Len(tasks) : tasks[i] # id
        /\ \A w \in workers : wtask[w] # id
        /\ executed[id] = 0
        /\ future[id].state = "none"

\* a submission arrived after stop_ was set while a worker was still busy
C9_Witness ==
    /\ lateSubmissions # {}
    /\ dtor = "joined"
    /\ \E id \in Accepted : executed[id] = 1

\* C10 as stated: the tasks still queued when stop_ is set are never run
C10_QueuedTasksNeverRun ==
    \A id \in queuedAtStop : executed[id] = 0 /\ future[id].state = "pending"

\* C10 amended: when the destructor returns, every accepted task has been
\* run exactly once and its future is fulfilled, those still queued when
\* stop_ was set included
C10_DestroyedPoolRanEveryTask ==
    dtor = "joined" =>
        \A id \in Accepted : executed[id] = 1 /\ future[id].state = "ready"

\* the pool was destroyed with two tasks still queued
C10_Witness ==
    /\ dtor = "joined"
    /\ Cardinality(queuedAtStop) >= 2

(***************************************************************************)
(* Single buffers and single files: encodeBuffer / decodeBuffer, and       *)
(* compressFile / decompressFile, on every input of the bounded set.       *)
(***************************************************************************)
NoPool ==
    /\ threadCountArg = 0
    /\ workers = {} /\ tasks = <<>> /\ stop = FALSE /\ wpc = <<>> /\ wtask = <<>>
    /\ dtor = "none" /\ notifyPending = 0 /\ closures = <<>> /\ future = <<>>

NoCaller ==
    /\ got = <<>> /\ rejected = {} /\ queuedAtStop = {} /\ executed = <<>>
    /\ lateSubmissions = {} /\ outOfOrder = FALSE

\* the heap's choices that matter to an algorithm
Ties(algo_) == IF algo_ = "huffman" THEN {"oldest", "newest"} ELSE {"oldest"}

FileInit ==
    /\ algo \in {"huffman", "lzw"}
    /\ tie \in Ties(algo)
    /\ input \in SeqsUpTo(InputBytes, MaxLen)
    /\ pc = "file"
    /\ result = <<>> /\ decoded = <<>>
    /\ fileBytes = NoFile /\ restoredFile = NoFile /\ bitIo = NoBitIo
    /\ NoPool /\ NoCaller /\ IdleDir

\* <algo>::encodeBuffer(input)
EncodeBufferCall ==
    /\ pc = "file"
    /\ result' = <<Encode(algo, input, tie)>>
    /\ pc' = "encoded"
    /\ UNCHANGED <<poolVars, callerVars, algo, tie, dirVars>>
    /\ UNCHANGED <<bitIo, input, decoded, fileBytes, restoredFile>>

\* <algo>::decodeBuffer(metadata, payload) on what encodeBuffer returned
DecodeBufferCall ==
    /\ pc = "encoded"
    /\ result[1].fault = "none"
    /\ decoded' = <<Decode(algo, result[1].metadata, result[1].payload, tie)>>
    /\ pc' = "decoded"
    /\ UNCHANGED <<poolVars, callerVars, algo, tie, dirVars>>
    /\ UNCHANGED <<bitIo, input, result, fileBytes, restoredFile>>

\* the bytes compressFile writes for an encoded buffer
WriteFile(algo_, r) ==
    IF algo_ = "huffman"
    THEN HuffmanWriteFile([metadata |-> r.metadata, compressed |-> r.payload])
    ELSE LzwWriteFile([metadata |-> r.metadata, codes |-> r.payload])

\* compressFile after the source was read
CompressFileEffects(r) ==
    IF r.fault # "none"
    THEN /\ opFault' = <<r.fault, 0>>
         /\ pc' = "failed"
         /\ UNCHANGED fileBytes
    ELSE /\ fileBytes' = <<WriteFile(algo, r)>>
         /\ pc' = "written"
         /\ UNCHANGED opFault

\* compressFile(source, destination)
compressFile ==
    /\ pc = "file"
    /\ \E io \in {"ok", "io_fault"} :
         IF io = "ok"
         THEN CompressFileEffects(Encode(algo, input, tie))
         ELSE /\ opFault' = <<"io", 0>>
              /\ pc' = "failed"
              /\ UNCHANGED fileBytes
    /\ UNCHANGED <<poolVars, callerVars, algo, tie>>
    /\ UNCHANGED <<tree, entries, compressedEntries, pendingEntries, archive,
                   destRoot, restored>>
    /\ UNCHANGED <<bitIo, input, result, decoded, restoredFile>>

\* what decompressFile decodes from the bytes of a compressed file
DecompressFile(algo_, data, tie_) ==
    IF algo_ = "huffman" THEN HuffmanDecompressFile(data, tie_)
    ELSE LzwDecompressFile(data)

\* decompressFile after the header and payload were read and decoded
DecompressFileEffects(r, io) ==
    IF r.fault # "none"
    THEN /\ opFault' = <<r.fault, 0>>
         /\ pc' = "failed"
         /\ UNCHANGED restoredFile
    ELSE IF io # "ok"
    THEN /\ opFault' = <<"io", 0>>
         /\ pc' = "failed"
         /\ UNCHANGED restoredFile
    ELSE /\ restoredFile' = <<r.output>>
         /\ pc' = "restored"
         /\ UNCHANGED opFault

\* decompressFile(source, destination) on the file compressFile wrote
decompressFile ==
    /\ pc = "written"
    /\ \E io \in {"ok", "io_fault"} :
         DecompressFileEffects(DecompressFile(algo, fileBytes[1], tie), io)
    /\ UNCHANGED <<poolVars, callerVars, algo, tie>>
    /\ UNCHANGED <<tree, entries, compressedEntries, pendingEntries, archive,
                   destRoot, restored>>
    /\ UNCHANGED <<bitIo, input, result, decoded, fileBytes>>

FileNext ==
    \/ EncodeBufferCall
    \/ DecodeBufferCall
    \/ compressFile
    \/ decompressFile

SpecFile == FileInit /\ [][FileNext]_vars

\* C1: under Huffman, decodeBuffer of what encodeBuffer returned is the
\* input buffer byte for byte, and decompressFile of what compressFile wrote
\* is the source file byte for byte (empty input and one-symbol input
\* included); neither codec step faults, so the file operations can only
\* end in an I/O fault
C1_HuffmanRoundTrip ==
    algo = "huffman" =>
        /\ pc = "encoded" => result[1].fault = "none"
        /\ pc = "decoded" => decoded = <<[fault |-> "none", output |-> input]>>
        /\ pc = "restored" => restoredFile = <<input>>
        /\ (pc = "failed" /\ fileBytes # NoFile) => opFault = <<"io", 0>>

\* a file of three distinct byte values, one of them repeated, was restored
C1_Witness ==
    /\ algo = "huffman"
    /\ pc = "restored"
    /\ Len(input) = MaxLen
    /\ Cardinality({input[i] : i \in 1..Len(input)}) = 3
    /\ restoredFile = <<input>>

\* the decoder meets a code it has not yet entered in its dictionary
CScScOccurs(codes) ==
    \E i \in 2..Len(codes) :
        /\ codes[i] = kInitialDictionarySize + (i - 2)
        /\ codes[i] < kMaxDictionarySize

\* the dictionary filled up and codes kept coming
CapReached(metadata, codes) ==
    /\ metadata.dictionarySize = kMaxDictionarySize
    /\ Len(codes) - 1 > kMaxDictionarySize - kInitialDictionarySize

\* C2: under LZW, decodeBuffer of what encodeBuffer returned is the input
\* buffer byte for byte, and decompressFile of what compressFile wrote is
\* the source file byte for byte, also when the decoder meets a code not yet
\* in its dictionary and when the dictionary has reached its maximum;
\* neither codec step faults, so the file operations can only end in an
\* I/O fault
C2_LzwRoundTrip ==
    algo = "lzw" =>
        /\ pc = "encoded" => result[1].fault = "none"
        /\ pc = "decoded" => decoded = <<[fault |-> "none", output |-> input]>>
        /\ pc = "restored" => restoredFile = <<input>>
        /\ (pc = "failed" /\ fileBytes # NoFile) => opFault = <<"io", 0>>

\* a buffer was decoded through a not-yet-entered code and a full dictionary
C2_Witness ==
    /\ algo = "lzw"
    /\ pc = "decoded"
    /\ CScScOccurs(result[1].payload)
    /\ CapReached(result[1].metadata, result[1].payload)
    /\ decoded[1].output = input

(***************************************************************************)
(* The directory pipeline: compressDirectory of a source tree into an      *)
(* archive, then decompressDirectory of that archive into a destination    *)
(* root, each with its own pool (src/src/compression/huffman.cpp, lzw.cpp).*)
(***************************************************************************)
\* the files a source tree is made of, as <<relative path, bytes>>: "a" is
\* a file whose LZW coding meets a not-yet-entered code and whose Huffman
\* tree has two leaves, "n/b" an empty file in a subdirectory, "c" a file of
\* one byte and "n/d" a file of two distinct bytes
SourceFiles ==
    << << <<97>>, <<1, 1, 1, 0>> >>,
       << <<110, 47, 98>>, <<>> >>,
       << <<99>>, <<65>> >>,
       << <<110, 47, 100>>, <<0, 255>> >> >>

FileIndexes == 1..Min({MaxFiles, Len(SourceFiles)})

\* the source trees (relative path -> bytes): every subset of the files
Trees ==
    {[p \in {SourceFiles[i][1] : i \in S} |->
         SourceFiles[CHOOSE i \in S : SourceFiles[i][1] = p][2]] :
     S \in SUBSET FileIndexes}

\* the orders a directory iterator may enumerate a set of files in
Enumerations(S) ==
    {order \in [1..Cardinality(S) -> S] :
        \A i, j \in 1..Cardinality(S) : i # j => order[i] # order[j]}

DirInit ==
    /\ algo \in {"huffman", "lzw"}
    /\ tie \in Ties(algo)
    /\ tree \in Trees
    /\ pc = "c_list"
    /\ entries = <<>> /\ compressedEntries = <<>> /\ pendingEntries = <<>>
    /\ archive = NoFile /\ destRoot = FALSE /\ restored = <<>>
    /\ opFault = NoFault
    /\ NoPool /\ NoCaller /\ IdleFile

\* a pipeline that builds its pool whatever the list holds
EntriesEmptyIgnored(list) == FALSE

\* entries.empty(): no pool is built and no task submitted for an empty list
EntriesEmpty(list) == list = <<>>

\* the observations of the caller of a pool that was just constructed
FreshCaller ==
    /\ got' = <<>> /\ rejected' = {} /\ queuedAtStop' = {} /\ executed' = <<>>
    /\ lateSubmissions' = {} /\ outOfOrder' = FALSE

\* compressDirectory up to the enqueue loop: listEntries, then the pool
CompressStart ==
    /\ pc = "c_list"
    /\ \E io \in {"ok", "list_fault"} :
       \E order \in Enumerations(DOMAIN tree) :
       \E threadCount \in 0..MaxThreads : \E hardware \in HardwareConcurrency :
          IF io # "ok"
          THEN /\ opFault' = <<"directory_iterator", 0>>
               /\ pc' = "compressFailed"
               /\ UNCHANGED <<entries, poolVars>>
          ELSE /\ entries' = order
               /\ UNCHANGED opFault
               /\ IF EntriesEmpty(order)
                  THEN pc' = "c_write" /\ UNCHANGED poolVars
                  ELSE /\ pc' = "c_enqueue"
                       /\ PoolConstructed(threadCount, hardware)
    /\ UNCHANGED <<callerVars, algo, tie, fileVars>>
    /\ UNCHANGED <<tree, compressedEntries, pendingEntries, archive, destRoot,
                   restored>>

\* one iteration of compressDirectory's enqueue loop
CompressEnqueue ==
    /\ pc = "c_enqueue"
    /\ notifyPending = 0
    /\ Enqueue([kind |-> "compress", arg |-> Len(closures) + 1,
                path |-> entries[Len(closures) + 1]])
    /\ pc' = IF Len(closures) + 1 = Len(entries) THEN "c_get" ELSE pc
    /\ UNCHANGED <<threadCountArg, workers, stop, wpc, wtask, dtor, queuedAtStop, outOfOrder>>
    /\ UNCHANGED <<algo, tie, dirVars, fileVars>>

\* a coordinator that takes whichever result is ready
NextGetAnyReady ==
    IF \E id \in 1..Len(got) : got[id].state = "none" /\ future[id].state = "ready"
    THEN Max({id \in 1..Len(got) :
                 got[id].state = "none" /\ future[id].state = "ready"})
    ELSE Min({id \in 1..Len(got) : got[id].state = "none"})

\* the future the loop over futures awaits next: they are taken in the
\* order of the vector, which is the order of submission
NextGet == Min({id \in 1..Len(got) : got[id].state = "none"})

\* a coordinator that leaves the loop over the futures after the first one
LastGetAfterFirst == TRUE

\* TRUE when the future awaited now is the last one of the loop
LastGet == \A id \in 1..Len(got) : id # NextGet => got[id].state # "none"

\* one iteration of compressDirectory's loop over the futures
CompressGet ==
    /\ pc = "c_get"
    /\ notifyPending = 0
    /\ future[NextGet].state = "ready"
    /\ got' = [got EXCEPT ![NextGet] = future[NextGet]]
    /\ IF future[NextGet].fault # NoFault
       THEN /\ opFault' = future[NextGet].fault
            /\ pc' = "c_unwind"
            /\ UNCHANGED compressedEntries
       ELSE /\ compressedEntries' =
                   Append(compressedEntries, future[NextGet].value[1])
            /\ pc' = IF LastGet THEN "c_scope_exit" ELSE pc
            /\ UNCHANGED opFault
    /\ UNCHANGED <<poolVars, rejected, queuedAtStop, lateSubmissions, executed,
                   outOfOrder>>
    /\ UNCHANGED <<algo, tie, fileVars>>
    /\ UNCHANGED <<tree, entries, pendingEntries, archive, destRoot, restored>>

\* the pool goes out of scope: at the end of its block, or while the
\* exception of a future unwinds the stack
PoolScopeEnds ==
    /\ pc \in {"c_unwind", "c_scope_exit", "d_unwind", "d_scope_exit"}
    /\ DtorStop
    /\ UNCHANGED <<algo, tie, pc, dirVars, fileVars>>

\* the write phase of compressDirectory
CompressWrite ==
    /\ pc = "c_write"
    /\ \E io \in {"ok", "open_fault", "write_fault"} :
          IF io = "ok"
          THEN /\ archive' = <<WriteArchive(algo, compressedEntries)>>
               /\ pc' = "compressed"
               /\ UNCHANGED opFault
          ELSE /\ archive' = IF io = "open_fault" THEN archive
                             ELSE <<WritePreamble(ArchiveMagic(algo))>>
               /\ opFault' = <<"Failed to write archive", 0>>
               /\ pc' = "compressFailed"
    /\ UNCHANGED <<poolVars, callerVars, algo, tie, fileVars>>
    /\ UNCHANGED <<tree, entries, compressedEntries, pendingEntries, destRoot,
                   restored>>

\* decompressDirectory once the archive is open and the root was created
DecompressParsed(r, threadCount, hardware) ==
    /\ destRoot' = TRUE
    /\ IF r.fault # "none"
       THEN /\ opFault' = <<r.fault, 0>>
            /\ pc' = "decompressFailed"
            /\ UNCHANGED <<pendingEntries, poolVars, callerVars>>
       ELSE /\ pendingEntries' = r.entries
            /\ UNCHANGED opFault
            /\ IF EntriesEmpty(r.entries)
               THEN pc' = "done" /\ UNCHANGED <<poolVars, callerVars>>
               ELSE /\ pc' = "d_enqueue"
                    /\ PoolConstructed(threadCount, hardware)
                    /\ FreshCaller

\* decompressDirectory up to the enqueue loop: open the archive, create the
\* destination root, read the header and every entry, then the pool
DecompressStart ==
    /\ pc = "compressed"
    /\ \E io \in {"ok", "open_fault", "mkdir_fault"} :
       \E threadCount \in 0..MaxThreads : \E hardware \in HardwareConcurrency :
          IF io # "ok"
          THEN /\ opFault' = <<io, 0>>
               /\ pc' = "decompressFailed"
               /\ UNCHANGED <<destRoot, pendingEntries, poolVars, callerVars>>
          ELSE DecompressParsed(ReadArchive(algo, archive[1]), threadCount,
                                hardware)
    /\ UNCHANGED <<algo, tie, fileVars>>
    /\ UNCHANGED <<tree, entries, compressedEntries, archive, restored>>

\* one iteration of decompressDirectory's enqueue loop
DecompressEnqueue ==
    /\ pc = "d_enqueue"
    /\ notifyPending = 0
    /\ Enqueue([kind |-> "decompress", arg |-> Len(closures) + 1,
                path |-> pendingEntries[Len(closures) + 1].relativePath,
                metadata |-> pendingEntries[Len(closures) + 1].metadata,
                payload |-> pendingEntries[Len(closures) + 1].payload])
    /\ pc' = IF Len(closures) + 1 = Len(pendingEntries) THEN "d_get" ELSE pc
    /\ UNCHANGED <<threadCountArg, workers, stop, wpc, wtask, dtor, queuedAtStop, outOfOrder>>
    /\ UNCHANGED <<algo, tie, dirVars, fileVars>>

\* one iteration of decompressDirectory's loop over the futures
DecompressGet ==
    /\ pc = "d_get"
    /\ notifyPending = 0
    /\ future[NextGet].state = "ready"
    /\ got' = [got EXCEPT ![NextGet] = future[NextGet]]
    /\ IF future[NextGet].fault # NoFault
       THEN /\ opFault' = future[NextGet].fault
            /\ pc' = "d_unwind"
       ELSE /\ pc' = IF LastGet THEN "d_scope_exit" ELSE pc
            /\ UNCHANGED opFault
    /\ UNCHANGED <<poolVars, rejected, queuedAtStop, lateSubmissions, executed,
                   outOfOrder>>
    /\ UNCHANGED <<algo, tie, fileVars>>
    /\ UNCHANGED <<tree, entries, compressedEntries, pendingEntries, archive,
                   destRoot, restored>>

DirNext ==
    \/ CompressStart
    \/ CompressEnqueue
    \/ CompressGet
    \/ CompressWrite
    \/ DecompressStart
    \/ DecompressEnqueue
    \/ DecompressGet
    \/ PoolScopeEnds
    \/ DtorNotifyAll
    \/ DtorJoin
    \/ NotifyOne
    \/ \E w \in workers : SpuriousWake(w)
    \/ \E w \in workers : WorkerLocked(w)
    \/ \E w \in workers : WorkerRun(w)

SpecDir == DirInit /\ [][DirNext]_vars

(***************************************************************************)
(* Properties of the directory pipeline.                                   *)
(***************************************************************************)
\* the archive entry of a source file, computed from the file alone
EntryOf(path, r) ==
    [relativePath |-> path, metadata |-> r.metadata, payload |-> r.payload]

\* the entries of the enumerated list, in enumeration order
EnumeratedEntries ==
    [i \in 1..Len(entries) |->
        EntryOf(entries[i], Encode(algo, tree[entries[i]], tie))]

\* the tasks of the current pool that faulted
Faulted == {id \in 1..Len(future) : future[id].fault # NoFault}

\* the operation ended in the fault of one of its per-file tasks
EndedInTaskFault ==
    /\ pc \in {"compressFailed", "decompressFailed"}
    /\ opFault[2] # 0

C4_ArchiveInEnumerationOrder ==
    pc = "compressed" => archive = <<WriteArchive(algo, EnumeratedEntries)>>

\* an archive of two entries whose second task finished before the first
C4_Witness ==
    /\ pc = "compressed"
    /\ Len(entries) = 2
    /\ Cardinality(workers) = 2
    /\ outOfOrder
    /\ archive # NoFile

\* C7: when compressDirectory or decompressDirectory ends in the fault of a
\* per-file task, the pool has been joined, every submitted task has run
\* (exactly once) and the fault reported is that of the earliest-submitted
\* task that faulted
C7_FirstFaultAfterAllTasks ==
    EndedInTaskFault =>
        /\ dtor = "joined"
        /\ \A w \in workers : wpc[w] = "exited"
        /\ \A id \in 1..Len(closures) :
               executed[id] = 1 /\ future[id].state = "ready"
        /\ opFault = future[Min(Faulted)].fault
        /\ opFault[2] = Min(Faulted)

\* the first task's fault surfaced while the second was still queued; the
\* second ran during the destructor and faulted too
C7_Witness ==
    /\ pc = "decompressFailed"
    /\ opFault[2] = 1
    /\ Cardinality(Faulted) = 2
    /\ queuedAtStop # {}

\* C8 as stated: an operation that ended in a fault left no output
C8_NoOutputOnFault ==
    /\ pc = "compressFailed" => archive = NoFile
    /\ pc = "decompressFailed" => restored = <<>>

\* C8 amended: a fault is reported as a fault; when compressDirectory ends
\* in the fault of a per-file task no archive has been opened; when
\* decompressDirectory ends in the fault of a per-file task the destination
\* root exists and the file of every task that did not fault is in place,
\* bytewise equal to its source
C8_FaultKeepsFinishedOutputs ==
    /\ pc \in {"compressFailed", "decompressFailed"} => opFault # NoFault
    /\ (pc = "compressFailed" /\ opFault[2] # 0) => archive = NoFile
    /\ (pc = "decompressFailed" /\ opFault[2] # 0) =>
           /\ destRoot
           /\ \A id \in (1..Len(closures)) \ Faulted :
                  /\ closures[id].path \in DOMAIN restored
                  /\ restored[closures[id].path] = tree[closures[id].path]

\* decompressDirectory ended in the fault of one task and left the other
\* task's non-empty file restored
C8_Witness ==
    /\ pc = "decompressFailed"
    /\ opFault[2] # 0
    /\ \E id \in (1..Len(closures)) \ Faulted :
           /\ closures[id].path \in DOMAIN restored
           /\ restored[closures[id].path] # <<>>

(***************************************************************************)
(* Properties of the archive container.                                    *)
(***************************************************************************)
\* the number of entry frames from pos to the end of the archive (negative
\* when the bytes from pos on are not a sequence of whole frames)
RECURSIVE FramesIn(_, _, _)
FramesIn(algo_, data, pos) ==
    IF pos >= Len(data) THEN 0
    ELSE With(ReadArchiveEntry(algo_, data, pos, readValue(data, pos, 4)),
              LAMBDA r : IF ~r.ok THEN 0 - 1000
                         ELSE 1 + FramesIn(algo_, data, r.pos))

\* the fileCount field of an archive
FileCountField(data) == readValue(data, 8, 4).value

\* what readArchive returns on the archive that was written
ArchiveReadsBack(count, r) ==
    /\ r.fault = "none"
    /\ Len(r.entries) = count

\* C11: in every archive compressDirectory has written, the fileCount field
\* equals the number of entry frames that follow it up to the end of the
\* file, and readArchive returns exactly that many entries
C11_FileCountMatchesFrames ==
    pc = "compressed" =>
        /\ FileCountField(archive[1]) = FramesIn(algo, archive[1], 12)
        /\ FileCountField(archive[1]) = Len(entries)
        /\ ArchiveReadsBack(FileCountField(archive[1]), ReadArchive(algo, archive[1]))

\* an archive of two frames was written
C11_Witness ==
    /\ pc = "compressed"
    /\ FileCountField(archive[1]) = 2
    /\ FramesIn(algo, archive[1], 12) = 2

\* the bytes of an archive without entries: preamble, then fileCount 0
EmptyArchive(algo_) == WritePreamble(ArchiveMagic(algo_)) \o <<0, 0, 0, 0>>

\* C12: for a tree without regular files, compressDirectory builds no pool
\* and submits no task, and the archive it writes is the header with
\* fileCount 0; decompressDirectory on that archive builds no pool, submits
\* no task, writes no file, and can only end normally or in an I/O fault on
\* opening the archive or creating the destination root
C12_EmptyArchiveValid ==
    tree = <<>> =>
        /\ workers = {} /\ dtor = "none" /\ closures = <<>>
        /\ restored = <<>>
        /\ pc \in {"c_list", "c_write", "compressed", "compressFailed", "done",
                   "decompressFailed"}
        /\ pc \in {"compressed", "done", "decompressFailed"} =>
               archive = <<EmptyArchive(algo)>>
        /\ pc = "decompressFailed" => opFault[1] \in {"open_fault", "mkdir_fault"}
        /\ pc = "done" => (opFault = NoFault /\ pendingEntries = <<>>)

\* the empty tree was archived and the archive was unpacked
C12_Witness ==
    /\ tree = <<>>
    /\ pc = "done"
    /\ destRoot
    /\ FileCountField(archive[1]) = 0
    /\ Len(archive[1]) = 12


(***************************************************************************)
(* Specification of the codecs alone: encodeBuffer and decodeBuffer on     *)
(* buffers, and decodeBuffer on metadata and payloads that no encoder      *)
(* produced (what decompressFile and readArchive hand over when the file   *)
(* was damaged or crafted).                                                *)
(***************************************************************************)
\* n copies of one byte
Run(byte, n) == [i \in 1..n |-> byte]

\* mixed buffers, runs of one byte, and runs followed by one other byte
CodecInputs ==
    SeqsUpTo(InputBytes, MaxShort)
        \cup {Run(byte, n) : byte \in InputBytes, n \in 1..MaxRun}
        \cup {Append(Run(byte, n), last) :
                 byte \in InputBytes, last \in InputBytes, n \in 1..MaxRun}

\* Huffman metadata of a stream: any frequency table, with an originalSize
\* that agrees with it or is off by one
HuffmanStreamMetadata ==
    {[frequencies |-> CountFrequencies(buffer, ZeroTable), originalSize |-> n] :
        buffer \in CodecInputs, n \in 0..(MaxRun + 1)}

StreamMetadata(algo_) ==
    IF algo_ = "huffman"
    THEN {m \in HuffmanStreamMetadata :
            \E buffer \in CodecInputs :
                /\ m.frequencies = CountFrequencies(buffer, ZeroTable)
                /\ m.originalSize \in {Len(buffer) - 1, Len(buffer), Len(buffer) + 1}}
    ELSE {[originalSize |-> n, dictionarySize |-> kInitialDictionarySize] :
            n \in 0..MaxShort}

\* the codes of a stream: two single bytes, the first two codes the decoder
\* can learn, the cap and the code after it
StreamCodes ==
    {65, 255, kInitialDictionarySize, kInitialDictionarySize + 1,
     kMaxDictionarySize, kMaxDictionarySize + 1}

StreamPayloads(algo_) ==
    IF algo_ = "huffman" THEN SeqsUpTo({0, 165, 255}, MaxStream)
    ELSE SeqsUpTo(StreamCodes, DictGrowth + 2)

CodecInit ==
    /\ algo \in {"huffman", "lzw"}
    /\ tie \in Ties(algo)
    /\ \/ /\ pc = "file"
          /\ input \in CodecInputs
          /\ result = <<>>
       \/ /\ pc = "stream"
          /\ input = <<>>
          /\ \E metadata \in StreamMetadata(algo), payload \in StreamPayloads(algo) :
                result = <<[fault |-> "none", metadata |-> metadata,
                            payload |-> payload]>>
    /\ decoded = <<>>
    /\ fileBytes = NoFile /\ restoredFile = NoFile /\ bitIo = NoBitIo
    /\ NoPool /\ NoCaller /\ IdleDir

\* <algo>::decodeBuffer(metadata, payload) on a stream as it was read
DecodeStreamCall ==
    /\ pc = "stream"
    /\ decoded' = <<Decode(algo, result[1].metadata, result[1].payload, tie)>>
    /\ pc' = "streamDecoded"
    /\ UNCHANGED <<poolVars, callerVars, algo, tie, dirVars>>
    /\ UNCHANGED <<bitIo, input, result, fileBytes, restoredFile>>

CodecNext ==
    \/ EncodeBufferCall
    \/ DecodeBufferCall
    \/ DecodeStreamCall

SpecCodec == CodecInit /\ [][CodecNext]_vars


(***************************************************************************)
(* Properties of the codecs on single-symbol and empty buffers.            *)
(***************************************************************************)
SingleSymbol(buffer) ==
    buffer # <<>> /\ \A i \in DOMAIN buffer : buffer[i] = buffer[1]

\* the code table encodeBuffer builds for a frequency table
CodeTableOf(frequencies, tie_) ==
    With(buildTree(frequencies, tie_), LAMBDA t :
        buildCodeTable(t.storage, t.root, <<>>, EmptyCodeTable))

\* metadata of a buffer of originalSize copies of one byte
SingleLeaf(metadata) ==
    /\ metadata.originalSize >= 1
    /\ \E byte \in 0..255 :
          metadata.frequencies =
              [ZeroTable EXCEPT ![byte] = metadata.originalSize]

SingleLeafByte(metadata) ==
    CHOOSE byte \in 0..255 : metadata.frequencies[byte] # 0

\* C13: Huffman on N >= 1 copies of one byte b: b gets the 1-bit code 0, the
\* payload has ceil(N/8) bytes, and decodeBuffer returns the N copies of b
\* from originalSize and the single leaf alone, whatever the payload holds
\* (the payload encodeBuffer wrote, an empty one, or any other)
C13_SingleSymbolHuffman ==
    algo = "huffman" =>
        /\ (pc = "encoded" /\ SingleSymbol(input)) =>
              /\ result[1].fault = "none"
              /\ result[1].metadata.originalSize = Len(input)
              /\ CodeTableOf(result[1].metadata.frequencies, tie)[input[1]] = <<FALSE>>
              /\ Len(result[1].payload) = (Len(input) + 7) \div 8
              /\ \A i \in DOMAIN result[1].payload : result[1].payload[i] = 0
        /\ (pc = "decoded" /\ SingleSymbol(input)) =>
              /\ decoded[1].fault = "none"
              /\ decoded[1].output = input
        /\ (pc = "streamDecoded" /\ SingleLeaf(result[1].metadata)) =>
              /\ decoded[1].fault = "none"
              /\ decoded[1].output = Run(SingleLeafByte(result[1].metadata),
                                         result[1].metadata.originalSize)

\* seventeen copies of a byte came back from a payload of three bytes, and
\* nine copies came back from a stream without any payload byte
C13_Witness ==
    /\ algo = "huffman"
    /\ \/ /\ pc = "decoded"
          /\ Len(input) = MaxRun
          /\ SingleSymbol(input)
          /\ Len(result[1].payload) = (MaxRun + 7) \div 8
          /\ Len(result[1].payload) > 1
          /\ decoded[1].output = input
       \/ /\ pc = "streamDecoded"
          /\ SingleLeaf(result[1].metadata)
          /\ result[1].payload = <<>>
          /\ Len(decoded[1].output) > 8


\* C14: the empty buffer: encodeBuffer of either codec returns originalSize 0
\* and an empty payload without a fault (Huffman with the all-zero frequency
\* table, LZW with dictionarySize 0 and no code), and decodeBuffer on that
\* result returns the empty buffer without a fault
C14_EmptyInput ==
    input = <<>> =>
        /\ pc = "encoded" =>
              /\ result[1].fault = "none"
              /\ result[1].metadata.originalSize = 0
              /\ result[1].payload = <<>>
              /\ algo = "huffman" => result[1].metadata.frequencies = ZeroTable
              /\ algo = "lzw" => result[1].metadata.dictionarySize = 0
        /\ pc = "decoded" =>
              /\ decoded[1].fault = "none"
              /\ decoded[1].output = <<>>

\* the empty buffer went through encodeBuffer and decodeBuffer
C14_Witness ==
    /\ input = <<>>
    /\ pc = "decoded"
    /\ result[1].metadata.originalSize = 0
    /\ result[1].payload = <<>>
    /\ decoded[1].output = <<>>


(***************************************************************************)
(* Properties of LZW decodeBuffer on streams.                              *)
(***************************************************************************)
\* the decoder after all codes of a non-empty stream were read
AllCodesDecoded(codes) == LzwDecodeLoop(LzwDecoderInit(Head(codes)), Tail(codes))

\* every code was accepted and fewer bytes than declared were emitted
ShortOfDeclared(metadata, d) ==
    d.fault = "none" /\ Len(d.output) < metadata.originalSize

\* C15: LZW decodeBuffer raises a fault, and returns no buffer, whenever the
\* bytes emitted by decoding all codes are fewer than metadata.originalSize
C15_ShortOutputIsFault ==
    (/\ algo = "lzw"
     /\ pc = "streamDecoded"
     /\ result[1].payload # <<>>
     /\ ShortOfDeclared(result[1].metadata, AllCodesDecoded(result[1].payload)))
        => decoded[1].fault # "none"

\* one code for the byte 65 under a declared size of 2 came back as the
\* buffer <<65, 0>>
C15_Witness ==
    /\ algo = "lzw"
    /\ pc = "streamDecoded"
    /\ result[1].metadata.originalSize = 2
    /\ result[1].payload = <<65>>
    /\ decoded[1] = [fault |-> "none", output |-> <<65, 0>>]


(***************************************************************************)
(* Properties of the pool's size.                                          *)
(***************************************************************************)
\* C16: from its construction to the end of its destructor a pool built
\* with threadCount n > 0 has exactly n workers, and a pool built with
\* threadCount 0 has at least one; every worker is a thread in workerLoop,
\* and none has returned from it before the destructor set stop_, so a
\* worker is there for every task submitted
C16_WorkerCount ==
    dtor # "none" =>
        /\ threadCountArg > 0 => Cardinality(workers) = threadCountArg
        /\ threadCountArg = 0 => Cardinality(workers) >= 1
        /\ DOMAIN wpc = workers
        /\ ~stop => \A w \in workers : wpc[w] # "exited"

\* a pool built with threadCount 0 ran a task on its only worker and was
\* destroyed
C16_Witness ==
    /\ threadCountArg = 0
    /\ Cardinality(workers) = 1
    /\ dtor = "joined"
    /\ \E id \in DOMAIN executed : executed[id] = 1


(***************************************************************************)
(* Properties of the LZW encoder, byte by byte.                            *)
(***************************************************************************)
\* the encoder's locals after the first k bytes of a buffer
EncoderAfter(buffer, k) == LzwEncodeLoop(LzwEncoderInit, SubSeq(buffer, 1, k))

\* the loop iteration on byte emits a code
Emits(e, byte) == Append(e.current, ToChar(byte)) \notin DOMAIN e.dictionary

\* the code emitted on byte is the code the dictionary holds, right now,
\* for the string current, and lies below the cap
EmissionSound(e, byte) ==
    Emits(e, byte) =>
        /\ e.current \in DOMAIN e.dictionary
        /\ e.dictionary[e.current] \in 0..(kMaxDictionarySize - 1)
        /\ LzwEncodeStep(e, byte).fault = "none"
        /\ LzwEncodeStep(e, byte).codes = Append(e.codes, e.dictionary[e.current])

\* the same for the code emitted after the last byte
LastEmissionSound(e, r) ==
    /\ e.current \in DOMAIN e.dictionary
    /\ e.dictionary[e.current] \in 0..(kMaxDictionarySize - 1)
    /\ r.payload = Append(e.codes, e.dictionary[e.current])

\* C17: in LZW encodeBuffer every code emitted, in the loop or after it, is
\* the dictionary's code for a string the dictionary holds at that moment,
\* and lies in [0, kMaxDictionarySize)
C17_EmittedCodesKnown ==
    (algo = "lzw" /\ pc = "encoded" /\ input # <<>>) =>
        /\ result[1].fault = "none"
        /\ \A k \in 0..(Len(input) - 1) :
              EmissionSound(EncoderAfter(input, k), input[k + 1])
        /\ LastEmissionSound(EncoderAfter(input, Len(input)), result[1])
        /\ \A i \in DOMAIN result[1].payload :
              result[1].payload[i] \in 0..(kMaxDictionarySize - 1)

\* a buffer was encoded past the cap: the highest code was emitted
C17_Witness ==
    /\ algo = "lzw"
    /\ pc = "encoded"
    /\ result[1].metadata.dictionarySize = kMaxDictionarySize
    /\ \E i \in DOMAIN result[1].payload :
          /\ result[1].payload[i] = kMaxDictionarySize - 1
          /\ i < Len(result[1].payload)


(***************************************************************************)
(* Properties of the LZW decoder, code by code.                            *)
(***************************************************************************)
\* the decoder's locals after the first i codes of a stream (i >= 1)
DecoderAfter(codes, i) ==
    LzwDecodeLoop(LzwDecoderInit(codes[1]), SubSeq(codes, 2, i))

\* code is neither below the dictionary's size nor the next code to allocate
Rejected(d, code) == code >= Len(d.dictionary) /\ code # d.nextCode

\* the codes before the i-th were accepted and the i-th is rejected
RejectedAt(codes, i) ==
    IF i = 1 THEN codes[1] >= kInitialDictionarySize
    ELSE With(DecoderAfter(codes, i - 1), LAMBDA d :
             d.fault = "none" /\ Rejected(d, codes[i]))

\* C18: LZW decodeBuffer with originalSize > 0 on a non-empty code stream
\* raises a fault and returns no output when the first code is not below
\* the initial dictionary size, or when a later code is neither below the
\* dictionary's size nor equal to nextCode at the moment it is read; when
\* no code is rejected that way, it raises no fault
C18_RejectedCodes ==
    (/\ algo = "lzw"
     /\ pc = "streamDecoded"
     /\ result[1].metadata.originalSize > 0
     /\ result[1].payload # <<>>)
        => IF \E i \in DOMAIN result[1].payload : RejectedAt(result[1].payload, i)
           THEN decoded[1].fault # "none" /\ decoded[1].output = <<>>
           ELSE decoded[1].fault = "none"

\* a stream whose second code was the next code to allocate, and accepted,
\* and whose third code was past it, and rejected
C18_Witness ==
    /\ algo = "lzw"
    /\ pc = "streamDecoded"
    /\ result[1].metadata.originalSize > 0
    /\ Len(result[1].payload) = 3
    /\ result[1].payload[1] < kInitialDictionarySize
    /\ result[1].payload[2] = kInitialDictionarySize
    /\ result[1].payload[3] = kMaxDictionarySize + 1
    /\ RejectedAt(result[1].payload, 3)
    /\ decoded[1].fault = "Invalid LZW code encountered during decoding"


(***************************************************************************)
(* Properties of the dictionary cap.                                       *)
(***************************************************************************)
\* the encoder's dictionary and counter are within the cap
EncoderWithinCap(e) ==
    /\ Cardinality(DOMAIN e.dictionary) <= kMaxDictionarySize
    /\ e.nextCode <= kMaxDictionarySize
    /\ Cardinality(DOMAIN e.dictionary) = e.nextCode

\* at the cap, the iteration on one more byte leaves dictionary and counter
\* alone and still consumes the byte: current moves on or a code is emitted
EncoderFrozen(e, after) ==
    e.nextCode = kMaxDictionarySize =>
        /\ after.fault = "none"
        /\ after.dictionary = e.dictionary
        /\ after.nextCode = e.nextCode
        /\ \/ Len(after.current) = Len(e.current) + 1 /\ after.codes = e.codes
           \/ Len(after.current) = 1 /\ Len(after.codes) = Len(e.codes) + 1

DecoderWithinCap(d) ==
    /\ Len(d.dictionary) <= kMaxDictionarySize
    /\ d.nextCode <= kMaxDictionarySize
    /\ Len(d.dictionary) = d.nextCode

\* at the cap, the iteration on one more accepted code leaves dictionary and
\* counter alone and still emits the code's string
DecoderFrozen(d, after) ==
    (d.fault = "none" /\ d.nextCode = kMaxDictionarySize /\ after.fault = "none") =>
        /\ after.dictionary = d.dictionary
        /\ after.nextCode = d.nextCode
        /\ Len(after.output) > Len(d.output)

EncoderCapped(buffer) ==
    \A k \in 0..Len(buffer) :
        /\ EncoderWithinCap(EncoderAfter(buffer, k))
        /\ k < Len(buffer) =>
              EncoderFrozen(EncoderAfter(buffer, k), EncoderAfter(buffer, k + 1))

DecoderCapped(codes) ==
    codes[1] < kInitialDictionarySize =>
        \A i \in 1..Len(codes) :
            /\ DecoderWithinCap(DecoderAfter(codes, i))
            /\ i < Len(codes) =>
                  DecoderFrozen(DecoderAfter(codes, i), DecoderAfter(codes, i + 1))

\* C19: in LZW encodeBuffer and decodeBuffer the dictionary never holds more
\* than kMaxDictionarySize entries and nextCode never exceeds it; once
\* nextCode has reached the cap every further iteration leaves dictionary
\* and nextCode as they are and still processes its byte or code
C19_DictionaryCapped ==
    algo = "lzw" =>
        /\ (pc = "encoded" /\ input # <<>>) => EncoderCapped(input)
        /\ (pc \in {"decoded", "streamDecoded"} /\ result[1].payload # <<>>) =>
              DecoderCapped(result[1].payload)

\* a buffer whose encoding and whose decoding both went on past the cap
C19_Witness ==
    /\ algo = "lzw"
    /\ pc = "decoded"
    /\ decoded[1].output = input
    /\ \E k \in 0..(Len(input) - 2) :
          EncoderAfter(input, k).nextCode = kMaxDictionarySize
    /\ \E i \in 1..(Len(result[1].payload) - 2) :
          DecoderAfter(result[1].payload, i).nextCode = kMaxDictionarySize


(***************************************************************************)
(* Properties of the Huffman bit loop.                                     *)
(***************************************************************************)
\* the symbols of non-zero frequency: the leaves of the tree
Leaves(frequencies) == {s \in DOMAIN frequencies : frequencies[s] # 0}

\* the bits a reader has consumed
BitsRead(reader) == 8 * reader.byteIndex + reader.bitIndex

\* the bits of the codes of a sequence of symbols
RECURSIVE CodeBits(_, _)
CodeBits(symbols, table) ==
    IF symbols = <<>> THEN 0
    ELSE Len(table[Head(symbols)]) + CodeBits(Tail(symbols), table)

\* the bit loop of decodeBuffer on a stream, with the reader it ends with
BitLoop(metadata, compressed, tie_) ==
    With(buildTree(metadata.frequencies, tie_), LAMBDA t :
        HuffmanDecodeLoop(t.storage, t.root, t.root, NewBitReader, <<>>,
                          compressed, metadata.originalSize))

\* the loop ended with originalSize symbols, having read the bits of their
\* codes and none after, or with the end of the stream, having read it all
ExactOrStreamEnd(metadata, compressed, table, loop) ==
    IF loop.fault = "none"
    THEN /\ Len(loop.output) = metadata.originalSize
         /\ BitsRead(loop.reader) = CodeBits(loop.output, table)
         /\ BitsRead(loop.reader) <= 8 * Len(compressed)
         /\ \A i \in DOMAIN loop.output :
               loop.output[i] \in Leaves(metadata.frequencies)
    ELSE /\ loop.fault = "Unexpected end of compressed stream"
         /\ BitsRead(loop.reader) = 8 * Len(compressed)

\* C20: Huffman decodeBuffer on a tree of two or more leaves either returns
\* exactly originalSize bytes, having read the bits of their codes and no
\* bit after them, or raises the fault of a stream that ended first; what
\* it returns is what the loop produced
C20_ExactSizeOrFault ==
    (/\ algo = "huffman"
     /\ pc \in {"decoded", "streamDecoded"}
     /\ result[1].metadata.originalSize > 0
     /\ Cardinality(Leaves(result[1].metadata.frequencies)) >= 2)
        => /\ ExactOrStreamEnd(result[1].metadata, result[1].payload,
                               CodeTableOf(result[1].metadata.frequencies, tie),
                               BitLoop(result[1].metadata, result[1].payload, tie))
           /\ decoded[1] = Returned(BitLoop(result[1].metadata, result[1].payload, tie))
           /\ decoded[1].fault = "none" =>
                  Len(decoded[1].output) = result[1].metadata.originalSize
           /\ decoded[1].fault # "none" => decoded[1].output = <<>>

\* a buffer of three symbols came back from a payload whose last byte holds
\* padding bits that were left unread
C20_Witness ==
    /\ algo = "huffman"
    /\ pc = "decoded"
    /\ Cardinality(Leaves(result[1].metadata.frequencies)) = 3
    /\ decoded[1].output = input
    /\ BitsRead(BitLoop(result[1].metadata, result[1].payload, tie).reader)
           < 8 * Len(result[1].payload)


(***************************************************************************)
(* Properties of the Huffman tree.                                         *)
(***************************************************************************)
\* the comparator puts one of two distinct nodes before the other
Ordered(storage, lhs, rhs) ==
    NodePtrComparator(storage, lhs, rhs) \/ NodePtrComparator(storage, rhs, lhs)

\* C21: the order (frequency, symbol) of buildTree's queue is total over
\* the nodes it holds together, so the frequency table alone determines the
\* tree and every code: whatever node the heap hands out among nodes the
\* comparator does not separate, the same tree and the same code table come
\* out
C21_TreeDeterminedByTable ==
    (algo = "huffman" /\ pc = "encoded" /\ input # <<>>) =>
        \A choice \in Ties("huffman") :
            /\ buildTree(result[1].metadata.frequencies, choice)
                   = buildTree(result[1].metadata.frequencies, tie)
            /\ CodeTableOf(result[1].metadata.frequencies, choice)
                   = CodeTableOf(result[1].metadata.frequencies, tie)

\* four bytes of frequency 1 each: the two internal nodes of frequency 2
\* are in the queue together, the comparator orders neither before the
\* other, and the two choices of the heap give byte 0 different codes
C21_Witness ==
    /\ algo = "huffman"
    /\ pc = "encoded"
    /\ input = <<0, 1, 65, 255>>
    /\ With(buildTree(result[1].metadata.frequencies, tie), LAMBDA t :
           /\ Len(t.storage) = 7
           /\ ~Ordered(t.storage, 5, 6))
    /\ CodeTableOf(result[1].metadata.frequencies, "oldest")[0]
           # CodeTableOf(result[1].metadata.frequencies, "newest")[0]


(***************************************************************************)
(* Properties of the Huffman frequency table.                              *)
(***************************************************************************)
\* how often a byte occurs in a buffer
Occurrences(buffer, byte) == Cardinality({i \in DOMAIN buffer : buffer[i] = byte})

\* the sum of the counters of a set of symbols
RECURSIVE SumOver(_, _)
SumOver(frequencies, symbols) ==
    IF symbols = {} THEN 0
    ELSE frequencies[Min(symbols)]
             + SumOver(frequencies, symbols \ {Min(symbols)})

\* C22: for a non-empty buffer the counters of the metadata encodeBuffer
\* returns are the numbers of occurrences of the bytes and add up to
\* originalSize; decodeBuffer accepts an all-zero table only under
\* originalSize 0 and raises a fault on it otherwise
C22_FrequenciesSumToSize ==
    algo = "huffman" =>
        /\ (pc = "encoded" /\ input # <<>>) =>
              /\ result[1].metadata.originalSize = Len(input)
              /\ \A byte \in 0..255 :
                    result[1].metadata.frequencies[byte] = Occurrences(input, byte)
              /\ SumOver(result[1].metadata.frequencies,
                         Leaves(result[1].metadata.frequencies))
                     = result[1].metadata.originalSize
        /\ (pc = "streamDecoded" /\ result[1].metadata.frequencies = ZeroTable) =>
              (decoded[1].fault = "none" <=> result[1].metadata.originalSize = 0)

\* a run as long as the counter's range came back from encodeBuffer with an
\* all-zero table under a non-zero originalSize, which decodeBuffer rejects
C22_Witness ==
    /\ algo = "huffman"
    /\ pc = "decoded"
    /\ input = Run(input[1], FrequencyWrap)
    /\ result[1].fault = "none"
    /\ result[1].metadata.frequencies = ZeroTable
    /\ result[1].metadata.originalSize = FrequencyWrap
    /\ decoded[1].fault = "Invalid Huffman metadata: empty tree with non-zero size"


(***************************************************************************)
(* Specification of the bit streams alone: a BitWriter takes a bit         *)
(* sequence bit by bit and finishes, then a BitReader reads the buffer     *)
(* until it signals the end of the stream.                                 *)
(***************************************************************************)
BitsInit ==
    /\ \E s \in SeqsUpTo(BOOLEAN, MaxBits) :
          bitIo = [sequence |-> s, pending |-> s, writer |-> NewBitWriter,
                   buffer |-> <<>>, reader |-> NewBitReader, bits |-> <<>>]
    /\ pc = "bits_write"
    /\ algo = "none" /\ tie = "oldest"
    /\ input = <<>> /\ result = <<>> /\ decoded = <<>>
    /\ fileBytes = NoFile /\ restoredFile = NoFile
    /\ NoPool /\ NoCaller /\ IdleDir

\* BitWriter::writeBit on the next bit of the sequence
WriteBitCall ==
    /\ pc = "bits_write"
    /\ bitIo.pending # <<>>
    /\ bitIo' = [bitIo EXCEPT !.writer = writeBit(@, Head(bitIo.pending)),
                              !.pending = Tail(@)]
    /\ UNCHANGED <<poolVars, callerVars, algo, tie, pc, dirVars>>
    /\ UNCHANGED <<input, result, decoded, fileBytes, restoredFile>>

\* BitWriter::finish once the whole sequence was written; a BitReader is
\* then constructed on the buffer
FinishCall ==
    /\ pc = "bits_write"
    /\ bitIo.pending = <<>>
    /\ bitIo' = [bitIo EXCEPT !.buffer = finish(bitIo.writer),
                              !.writer = NewBitWriter]
    /\ pc' = "bits_read"
    /\ UNCHANGED <<poolVars, callerVars, algo, tie, dirVars>>
    /\ UNCHANGED <<input, result, decoded, fileBytes, restoredFile>>

\* what one readBit call leaves behind
AfterReadBit(rb) ==
    IF rb.ok
    THEN /\ bitIo' = [bitIo EXCEPT !.reader = rb.reader, !.bits = Append(@, rb.bit)]
         /\ UNCHANGED pc
    ELSE /\ pc' = "bits_end"
         /\ UNCHANGED bitIo

\* BitReader::readBit
ReadBitCall ==
    /\ pc = "bits_read"
    /\ AfterReadBit(readBit(bitIo.reader, bitIo.buffer))
    /\ UNCHANGED <<poolVars, callerVars, algo, tie, dirVars>>
    /\ UNCHANGED <<input, result, decoded, fileBytes, restoredFile>>

BitsNext ==
    \/ WriteBitCall
    \/ FinishCall
    \/ ReadBitCall

SpecBits == BitsInit /\ [][BitsNext]_vars

\* C23: a bit sequence of length L written with BitWriter and finished
\* yields ceil(L/8) bytes; BitReader reads the sequence back from them bit
\* for bit, most significant bit first, and every bit after the L-th, up to
\* the end of the last byte, is zero
C23_BitRoundTrip ==
    pc \in {"bits_read", "bits_end"} =>
        /\ Len(bitIo.buffer) = (Len(bitIo.sequence) + 7) \div 8
        /\ \A i \in DOMAIN bitIo.bits :
              bitIo.bits[i] = IF i <= Len(bitIo.sequence)
                              THEN bitIo.sequence[i] ELSE FALSE
        /\ BitsRead(bitIo.reader) = Len(bitIo.bits)
        /\ pc = "bits_end" => Len(bitIo.bits) = 8 * Len(bitIo.buffer)

\* nine bits ending in a one were written to two bytes and read back,
\* followed by the seven zero bits of the padding
C23_Witness ==
    /\ pc = "bits_end"
    /\ Len(bitIo.sequence) = 9
    /\ bitIo.sequence[9]
    /\ Len(bitIo.buffer) = 2
    /\ SubSeq(bitIo.bits, 1, 9) = bitIo.sequence
    /\ Len(bitIo.bits) = 16


(***************************************************************************)
(* Properties of the phases of the directory pipeline.                     *)
(***************************************************************************)
\* every compression task has run and returned, its result was collected,
\* and the pool is gone: its workers have left workerLoop and were joined
BarrierPassed ==
    /\ Len(compressedEntries) = Len(entries)
    /\ tasks = <<>>
    /\ \A w \in workers : wpc[w] = "exited"
    /\ entries # <<>> =>
          /\ dtor = "joined"
          /\ Len(closures) = Len(entries)
          /\ \A id \in 1..Len(entries) :
                /\ executed[id] = 1
                /\ future[id].state = "ready"
                /\ got[id] = future[id]

\* C24: compressDirectory neither opens nor writes the archive before
\* every compression task has completed and its result was collected; when
\* the archive gets its first byte the pool has been destroyed, so the
\* coordinator is the only thread left
C24_FanInBarrier ==
    /\ pc \in {"c_list", "c_enqueue", "c_get", "c_unwind", "c_scope_exit", "c_write"}
          => archive = NoFile
    /\ (pc \in {"compressed", "compressFailed"} /\ archive # NoFile) => BarrierPassed
    /\ pc = "compressed" => archive # NoFile

\* two files were compressed by two workers and the archive was written
C24_Witness ==
    /\ pc = "compressed"
    /\ archive # NoFile
    /\ Len(entries) = 2
    /\ Cardinality(workers) = 2
    /\ dtor = "joined"
    /\ outOfOrder


(***************************************************************************)
(* decompressDirectory of an archive file the caller supplies: an archive  *)
(* written by compressDirectory, an archive naming one path twice, or a    *)
(* damaged archive (src/src/compression/huffman.cpp 516-607, lzw.cpp       *)
(* 398-495).                                                               *)
(***************************************************************************)
\* the frame that names the path of file i and carries the bytes of file j
FrameOf(algo_, tie_, i, j) ==
    EntryOf(SourceFiles[i][1], Encode(algo_, SourceFiles[j][2], tie_))

\* the frame lists of the archives compressDirectory writes for the source
\* trees, in every enumeration order
WrittenLists(algo_, tie_) ==
    {[k \in 1..Len(order) |-> FrameOf(algo_, tie_, order[k], order[k])] :
     order \in UNION {Enumerations(S) : S \in SUBSET FileIndexes}}

\* frame lists no compressDirectory run writes: the second frame names the
\* path of the first and carries the bytes of that or of another file
RepeatedPathLists(algo_, tie_) ==
    {<<FrameOf(algo_, tie_, i, i), FrameOf(algo_, tie_, i, j)>> :
     i \in FileIndexes, j \in FileIndexes} \ WrittenLists(algo_, tie_)

\* an archive file cut off after n bytes
Truncated(data, n) == SubSeq(data, 1, Min({n, Len(data)}))

\* the damaged variants of an archive file: another magic, another version
\* byte, and the file cut inside the magic, the header, the count or a frame
Damaged(data) ==
    {[data EXCEPT ![1] = (@ + 1) % 256], [data EXCEPT ![5] = kFormatVersion + 1]}
        \cup {Truncated(data, n) : n \in {0, 3, 4, 6, 10, Len(data) - 1}}

\* the archive files handed to decompressDirectory
ArchiveFiles(algo_, tie_) ==
    {WriteArchive(algo_, list) :
        list \in WrittenLists(algo_, tie_) \cup RepeatedPathLists(algo_, tie_)}
        \cup UNION {Damaged(WriteArchive(algo_, list)) :
                       list \in {l \in WrittenLists(algo_, tie_) : Len(l) <= 1}}

UnpackInit ==
    /\ algo \in {"huffman", "lzw"}
    /\ tie \in Ties(algo)
    /\ \E data \in ArchiveFiles(algo, tie) : archive = <<data>>
    /\ pc = "compressed"
    /\ tree = <<>> /\ entries = <<>> /\ compressedEntries = <<>>
    /\ pendingEntries = <<>>
    /\ destRoot = FALSE /\ restored = <<>>
    /\ opFault = NoFault
    /\ NoPool /\ NoCaller /\ IdleFile

UnpackNext ==
    \/ DecompressStart
    \/ DecompressEnqueue
    \/ DecompressGet
    \/ PoolScopeEnds
    \/ DtorNotifyAll
    \/ DtorJoin
    \/ NotifyOne
    \/ \E w \in workers : SpuriousWake(w)
    \/ \E w \in workers : WorkerLocked(w)
    \/ \E w \in workers : WorkerRun(w)

SpecUnpack == UnpackInit /\ [][UnpackNext]_vars

(***************************************************************************)
(* C25                                                                     *)
(***************************************************************************)
\* the faults decompressDirectory raises while it reads the archive framing
FramingFaults ==
    {"Failed to read magic", "Invalid magic", "Failed to read binary value",
     "Unsupported version", "Failed to read padding"}

\* the operation ended because the archive was rejected for its header
ArchiveRejected ==
    /\ pc = "decompressFailed"
    /\ opFault # NoFault
    /\ opFault[1] \in FramingFaults

\* C25: when decompressDirectory rejects the archive for a wrong magic, a
\* version other than 1 or a short read, the destination root has not been
\* created, no pool was built and no task was submitted
C25_RejectedBeforeRootCreated ==
    ArchiveRejected => (~destRoot /\ closures = <<>> /\ dtor = "none")

\* an archive with a wrong magic was rejected and the destination root exists
C25_Witness ==
    /\ ArchiveRejected
    /\ opFault[1] = "Invalid magic"
    /\ destRoot
    /\ closures = <<>>


(***************************************************************************)
(* C26                                                                     *)
(***************************************************************************)
\* the tasks decompressDirectory has submitted to its pool
SubmittedWriters ==
    {id \in 1..Len(closures) : closures[id].kind = "decompress"}

\* C26: the output paths of the tasks decompressDirectory submitted are
\* pairwise distinct, so every output file has exactly one writer task
C26_OneWriterPerFile ==
    \A a, b \in SubmittedWriters :
        closures[a].path = closures[b].path => a = b

\* two tasks of one decompressDirectory run were given the same output path
\* and both wrote it
C26_Witness ==
    /\ pc = "d_scope_exit"
    /\ \E a, b \in SubmittedWriters :
          /\ a # b
          /\ closures[a].path = closures[b].path
          /\ closures[a].payload # closures[b].payload
          /\ executed[a] = 1 /\ executed[b] = 1
          /\ future[a].fault = NoFault /\ future[b].fault = NoFault
    /\ outOfOrder


(***************************************************************************)
(* C27                                                                     *)
(***************************************************************************)
\* how many times task id stands in the queue
QueuedCopies(id) == Cardinality({i \in 1..Len(tasks) : tasks[i] = id})

\* the workers that hold task id after dequeuing it
Holders(id) == {w \in workers : wtask[w] = id}

\* C27: every accepted task is, at any time, either queued once, or held by
\* exactly one worker, or executed once (so it is dequeued by one worker
\* and run at most once, and no two workers run the same task); a rejected
\* task is never run; and a worker leaves its loop only when stop_ is set
\* and the queue is empty, so a faulting task does not stop its worker
C27_EachTaskRunOnce ==
    /\ \A id \in Accepted :
          /\ executed[id] <= 1
          /\ QueuedCopies(id) + Cardinality(Holders(id)) + executed[id] = 1
    /\ \A id \in rejected :
          executed[id] = 0 /\ QueuedCopies(id) = 0 /\ Holders(id) = {}
    /\ \A w \in workers :
          /\ (wpc[w] = "running") <=> (wtask[w] # 0)
          /\ wpc[w] = "exited" => (stop /\ tasks = <<>>)

\* the only worker of a pool ran a task that faulted and then the task that
\* followed it in the queue
C27_Witness ==
    /\ Cardinality(workers) = 1
    /\ Len(closures) >= 2
    /\ closures[1].kind = "fault" /\ future[1].fault # NoFault
    /\ executed[1] = 1 /\ executed[2] = 1
    /\ future[2].state = "ready" /\ future[2].fault = NoFault


(***************************************************************************)
(* The pool under scheduling: a thread that can take its next step does so *)
(* eventually. A worker that is not waiting acquires the mutex, a          *)
(* dequeued task returns, and the destructor proceeds to notify_all and to *)
(* its joins. Nothing obliges a caller to submit, to call get or to        *)
(* destroy the pool, nor the implementation to wake a waiter spuriously    *)
(* (src/src/concurrency/thread_pool.cpp 20-34, 41-60).                     *)
(***************************************************************************)
\* the worker threads a pool can have
WorkerThreads == 1..MaxThreads

PoolFairness ==
    /\ WF_vars(DtorNotifyAll)
    /\ WF_vars(DtorJoin)
    /\ \A w \in WorkerThreads : WF_vars(w \in workers /\ WorkerLocked(w))
    /\ \A w \in WorkerThreads : WF_vars(w \in workers /\ WorkerRun(w))

\* the steps of the pool, with at most MaxFairTasks submissions
PoolFairNext ==
    \/ \E kind \in {"value", "fault"} :
          Len(closures) < MaxFairTasks /\ Submit(kind)
    \/ NotifyOne
    \/ \E w \in workers : SpuriousWake(w)
    \/ \E w \in workers : WorkerLocked(w)
    \/ \E w \in workers : WorkerRun(w)
    \/ \E id \in 1..Len(future) : Get(id)
    \/ Destroy
    \/ DtorNotifyAll
    \/ DtorJoin

SpecPoolFair == PoolInit /\ [][PoolFairNext]_vars /\ PoolFairness

(***************************************************************************)
(* C28                                                                     *)
(***************************************************************************)
\* every worker has left workerLoop and the destructor has joined them
AllJoined == dtor = "joined" /\ \A w \in workers : wpc[w] = "exited"

\* C28: once the destructor has set stop_, it eventually returns with every
\* worker out of its loop and joined, and once notify_all was issued no
\* worker is blocked on the condition variable, whatever the number of
\* workers, the queued and running tasks and the submissions in between
C28_DestructionTerminates ==
    /\ [](dtor \in {"notified", "joined"} =>
             \A w \in workers : wpc[w] # "blocked")
    /\ (dtor = "stopped") ~> AllJoined

\* a pool of two workers was destroyed with tasks still queued and a
\* submission arriving after stop_, and its destructor returned
C28_Witness ==
    /\ AllJoined
    /\ Cardinality(workers) = 2
    /\ queuedAtStop # {}
    /\ lateSubmissions # {}


(***************************************************************************)
(* C29                                                                     *)
(***************************************************************************)
\* the number of input bytes the encoder has consumed when it has just
\* emitted its j-th code inside the loop (0 bytes for j = 0)
EmissionPoint(buffer, j) ==
    CHOOSE n \in 0..Len(buffer) :
        /\ Len(EncoderAfter(buffer, n).codes) = j
        /\ n > 0 => Len(EncoderAfter(buffer, n - 1).codes) < j

\* the <<code, string>> pairs the encoder has assigned beyond the preload
EncoderAssigned(e) ==
    {<<e.dictionary[str], ToBytes(str)>> :
        str \in {s \in DOMAIN e.dictionary :
                    e.dictionary[s] >= kInitialDictionarySize}}

\* the <<code, string>> pairs the decoder has entered beyond the preload
DecoderAssigned(d) ==
    {<<i - 1, ToBytes(d.dictionary[i])>> :
        i \in (kInitialDictionarySize + 1)..Len(d.dictionary)}

\* the decoder, k codes in, against the encoder just after its emission k - 1
InLockstep(buffer, codes, k) ==
    With(DecoderAfter(codes, k), LAMBDA d :
        /\ d.fault = "none"
        /\ Len(d.dictionary) = d.nextCode
        /\ DecoderAssigned(d)
              = EncoderAssigned(EncoderAfter(buffer, EmissionPoint(buffer, k - 1)))
        /\ {pair[1] : pair \in DecoderAssigned(d)}
              = {c \in kInitialDictionarySize..(kInitialDictionarySize + k - 2) :
                    c < kMaxDictionarySize})

\* the decoder's dictionary size equals nextCode after every code of a
\* stream, accepted or rejected
SizeIsNextCode(codes) ==
    \A i \in 1..Len(codes) :
        With(DecoderAfter(codes, i), LAMBDA d : Len(d.dictionary) = d.nextCode)

\* C29: throughout LZW decodeBuffer the dictionary size equals nextCode;
\* and on the codes encodeBuffer produced, after k codes the decoder's
\* dictionary holds exactly the strings the encoder had assigned to the
\* codes 256 .. 256+k-2 when it emitted its (k-1)-th code, under the same
\* codes: the decoder trails the encoder by one entry
C29_DecoderLockstep ==
    algo = "lzw" =>
        /\ (pc \in {"decoded", "streamDecoded"} /\ result[1].payload # <<>>) =>
              SizeIsNextCode(result[1].payload)
        /\ (pc = "decoded" /\ input # <<>>) =>
              \A k \in 1..Len(result[1].payload) :
                  InLockstep(input, result[1].payload, k)

\* a buffer whose coding uses a code the decoder has not entered yet when it
\* reads it, decoded with the dictionary filled to the cap
C29_Witness ==
    /\ algo = "lzw"
    /\ pc = "decoded"
    /\ decoded[1].fault = "none"
    /\ \E k \in 2..Len(result[1].payload) :
          result[1].payload[k] = DecoderAfter(result[1].payload, k - 1).nextCode
    /\ DecoderAfter(result[1].payload, Len(result[1].payload)).nextCode
          = kMaxDictionarySize


(***************************************************************************)
(* C30                                                                     *)
(***************************************************************************)
\* C30: encodeBuffer raises no fault, whatever the input buffer: neither
\* "Invalid Huffman code table entry" in the Huffman encoder nor "empty
\* current sequence" (nor a failed dictionary lookup) in the LZW encoder
C30_EncodingNeverFaults ==
    pc = "encoded" => result[1].fault = "none"

\* a buffer in which one byte value occurs as often as its counter wraps,
\* followed by another byte: the Huffman encoder finds no code for the
\* first byte
C30_Witness ==
    /\ algo = "huffman"
    /\ pc = "encoded"
    /\ Len(input) = FrequencyWrap + 1
    /\ Occurrences(input, input[1]) = FrequencyWrap
    /\ result[1].fault = "Invalid Huffman code table entry"

====
